---- MODULE Spec2Model ----
(***************************************************************************)
(* Model of the profile-transfer utility: the task runners                 *)
(* (run_robocopy, run_regexport), the two thread-pool dispatchers          *)
(* (copy_appdata_subdirs, reg_export), ensure_directory and the stage      *)
(* sequence of main.                                                       *)
(*                                                                         *)
(* Strings are TLA+ strings; a command is the list of tokens (robocopy) or *)
(* the single shell string (reg export) the code builds.  A log line is a  *)
(* record [msg, arg]: msg is the fixed text of the logging call, arg the   *)
(* value formatted into it.                                                *)
(***************************************************************************)
EXTENDS Integers, Sequences, FiniteSets, TLC

\* ------------------------------------------------------------------ bounds
\* Longest task list handed to a dispatcher under Spec.
MaxTasks == 2
\* Most output lines one subprocess prints.
MaxLines == 1
\* Most faults (raised exceptions) the environment injects into one run.
MaxFaults == 1
\* SpecCap dispatches PoolCap+1 .. PoolCap+ExtraTasks tasks.
ExtraTasks == 1
\* Longest task list the configuration gives a stage of main under SpecMain.
MaxMainTasks == 1
\* Local AppData subfolders the configuration lists under SpecScenario.
ScenarioTasks == 3
\* Longest timeout, in seconds, prompt_user_to_authenticate is called with on its own.
MaxTimeout == 5
MaxPasses == 2

\* The literal 6 of min(6, len(...)) in both dispatchers.
PoolCap == 6

MaxN == IF MaxTasks > PoolCap + ExtraTasks THEN MaxTasks ELSE PoolCap + ExtraTasks
Slots == 1..MaxN

\* Exit codes the external tools are taken to return: 0 (success) and 8
\* (robocopy: some files could not be copied).
ToolExitCodes == {0, 8}

\* ------------------------------------------------------- Python values
\* An Optional[List[str]] argument: None or a list.
None == [none |-> TRUE, items |-> <<>>]
Some(s) == [none |-> FALSE, items |-> s]
\* Python truthiness of an Optional[List[str]]: None and [] are falsy.
Truthy(x) == ~x.none /\ x.items # <<>>
\* Python's None where a str is expected.
PyNone == "<None>"
\* Python truthiness of an Optional[str]: None and "" are falsy.
TruthyStr(x) == x # PyNone /\ x # ""

\* " ".join(tokens)
RECURSIVE JoinSp(_)
JoinSp(s) ==
    IF s = <<>> THEN ""
    ELSE IF Len(s) = 1 THEN s[1]
    ELSE s[1] \o " " \o JoinSp(Tail(s))

\* os.path.join(root, rel) on Windows for a relative rel.
PathJoin(root, rel) == root \o "\\" \o rel

\* ------------------------------------------------- robocopy_runner.py
quote_path(path) == "\"" \o path \o "\""

QuoteAll(s) == [i \in 1..Len(s) |-> quote_path(s[i])]

build_robocopy_command_always_xd(source, destination, base_options, exclude_dirs, exclude_files) ==
    <<"robocopy", quote_path(source), quote_path(destination)>>
      \o (IF Truthy(base_options) THEN base_options.items ELSE <<>>)
      \o (<<"/XD">> \o QuoteAll(exclude_dirs.items))
      \o (IF Truthy(exclude_files) THEN <<"/XF">> \o QuoteAll(exclude_files.items) ELSE <<>>)

build_robocopy_command(source, destination, base_options, exclude_dirs, exclude_files) ==
    <<"robocopy", quote_path(source), quote_path(destination)>>
      \o (IF Truthy(base_options) THEN base_options.items ELSE <<>>)
      \o (IF Truthy(exclude_dirs) THEN <<"/XD">> \o QuoteAll(exclude_dirs.items) ELSE <<>>)
      \o (IF Truthy(exclude_files) THEN <<"/XF">> \o QuoteAll(exclude_files.items) ELSE <<>>)

\* run_robocopy's command: ROBOCOPY_OPTIONS + (additional_options or []).
RobocopyCmd(a) ==
    build_robocopy_command(
        a.source, a.destination,
        Some(a.options \o (IF Truthy(a.additional) THEN a.additional.items ELSE <<>>)),
        a.exclude_dirs, a.exclude_files)

\* ----------------------------------------------------- reg_exporter.py
\* run_regexport's command string.
RegCmd(a) ==
    LET reg_cmd == "reg export " \o quote_path(a.source) \o " "
                     \o quote_path(a.destination) \o " /y"
    IN IF TruthyStr(a.psexec_path)
       THEN quote_path(a.psexec_path) \o " -i 1 -h cmd /c " \o quote_path(reg_cmd)
       ELSE reg_cmd

\* A log line: the logging call's fixed text and the value formatted into it.
L(msg, arg) == [msg |-> msg, arg |-> arg]

\* constants.py: the default option list handed down as ROBOCOPY_OPTIONS.
ROBOCOPY_OPTIONS == <<"/S", "/Z", "/MT:8", "/R:3", "/W:5", "/NFL", "/NDL", "/NP">>

\* A task's outcome as its future holds it: a returned exit code or a raised
\* exception.
NoResult == [kind |-> "none", code |-> 0]
Ret(c) == [kind |-> "ret", code |-> c]
Raised == [kind |-> "exc", code |-> 0]

\* ---------------------------------------------------------------- state
VARIABLES
    entry,     \* the function called from outside
    call,      \* the bound parameters of the current dispatcher call
    dpc,       \* the dispatcher's position
    psexec,    \* reg_export's psexec_executable_path
    workers,   \* max_workers of the call's ThreadPoolExecutor
    nsub,      \* how many tasks have been submitted
    futures,   \* futures dict: slot of the future -> the entry it was made for
    pc,        \* each task's position
    rargs,     \* each task's runner-call arguments
    result,    \* each task's outcome
    outLeft,   \* output lines of the task's subprocess not yet read
    launched,  \* subprocesses the task's runner call has started
    tlog,      \* log lines of the task's thread, in order
    dlog,      \* log lines of the calling thread, in order
    records,   \* completion records collected by as_completed, per identity
    dirs,      \* directories created so far
    faults,    \* exceptions raised in the current call: <<call that raised, slot of the task (0: none)>>
    env,       \* what the environment may do in this run
    mpc,       \* main's position ("off": main is not running)
    args,      \* main's parsed command line: --dryrun and --destination
    destination,  \* main's local variable of that name
    stages,    \* the stage calls main has made, with the dry_run each callee runs under
    status,    \* the process's exit status (-1: still running)
    asked,     \* the y/n questions main has asked, with the answers it got
    apc,       \* prompt_user_to_authenticate's position ("off": not called)
    timeout,   \* its timeout parameter, in seconds
    proc,      \* the Explorer process it started: "none", "running", "exited" or "failed"
    elapsed,   \* time.time() - start_time, in seconds
    success,   \* the value it returned (meaningful once apc = "returned")
    launches,  \* calls of subprocess.Popen it has made
    polls,     \* passes of its polling loop
    reachable, \* whether the UNC path exists and is accessible now
    probed,    \* what the filesystem probes for PsExec have answered: <<path, is a file>>
    desktop,   \* the folder the shortcut scan is given: its path, whether it is a directory, its files in walk order
    marker,    \* per file of the folder: whether it has a Zone.Identifier stream now
    spc,       \* remove_mark_of_the_web_from_shortcuts' position ("off": not called)
    cursor,    \* the position in the walk of the file the scan turns to next
    reports    \* what remove_motw's logger has recorded, one list per call

dvars == <<call, dpc, psexec, workers, nsub, futures, records>>
tvars == <<pc, rargs, result, outLeft, launched, tlog>>
mvars == <<mpc, args, destination, stages, status, asked>>
avars == <<apc, timeout, proc, elapsed, success, launches, polls, reachable>>
wvars == <<desktop, marker, spc, cursor, reports>>
vars == <<entry, call, dpc, psexec, workers, nsub, futures, pc, rargs, result,
          outLeft, launched, tlog, dlog, records, dirs, faults, env,
          mpc, args, destination, stages, status, asked,
          apc, timeout, proc, elapsed, success, launches, polls, reachable, probed,
          desktop, marker, spc, cursor, reports>>

NoArgs == [tool |-> "none"]
NoCall == [fn |-> "none", items |-> <<>>, dry_run |-> FALSE]

\* The text an entry of the task list is logged as.
RECURSIVE Flatten(_)
Flatten(k) == IF k = <<>> THEN "" ELSE k[1] \o Flatten(Tail(k))

\* A registry key path is a list of pieces: "HKEY_", a separator or a name.
StripHKEY(k) == SelectSeq(k, LAMBDA p : p # "HKEY_")
ReplacePiece(k, from) == [i \in 1..Len(k) |-> IF k[i] = from THEN "_" ELSE k[i]]

\* export_single_path's base_name.
base_name_no_strip(k) ==
    Flatten(ReplacePiece(ReplacePiece(ReplacePiece(ReplacePiece(k, "\\"), "/"), ":"), " "))
base_name(k) ==
    Flatten(ReplacePiece(ReplacePiece(ReplacePiece(ReplacePiece(
        StripHKEY(k), "\\"), "/"), ":"), " "))

Identity(fn, item) == IF fn = "reg_export" THEN Flatten(item) ELSE item

N == Len(call.items)
Running == {t \in Slots : pc[t] \in {"calling", "invoking"}}
Invoking == {t \in Slots : pc[t] = "invoking"}

\* max_workers as each dispatcher computes it.
\* copy_program_files: the pool of a dispatch has min(cap, n) workers and at
\* least one.
ProgramFilesPoolSize(n) == IF n = 0 THEN 1 ELSE IF PoolCap < n THEN PoolCap ELSE n

PoolSize_uncapped(fn, n) ==
    IF fn = "reg_export" /\ n = 0 THEN 1 ELSE n
PoolSize(fn, n) ==
    IF fn = "reg_export"
    THEN (IF n # 0 THEN (IF PoolCap < n THEN PoolCap ELSE n) ELSE 1)
    ELSE (IF PoolCap < n THEN PoolCap ELSE n)

\* ------------------------------------------------------ the task runners
\* run_robocopy / run_regexport up to and including subprocess.Popen:
\* the command is built and logged; a dry run returns 0 here.
RunnerPrologue(a) ==
    IF a.tool = "robocopy"
    THEN <<L("Running RoboCopy command:", JoinSp(RobocopyCmd(a)))>>
    ELSE <<IF TruthyStr(a.psexec_path) THEN L("Using PsExec:", a.psexec_path)
                                       ELSE L("Not using PsExec.", "")>>

DryRunLine(a) ==
    IF a.tool = "robocopy" THEN L("[Dry Run] Command not executed.", "")
    ELSE L("[Dry Run] Command: (not executed).", RegCmd(a))

LaunchLines(a) ==
    IF a.tool = "robocopy" THEN <<>> ELSE <<L("Executing command:", RegCmd(a))>>

\* The exceptions the environment raises: FileNotFoundError has its own
\* handler in run_regexport, everything else falls to "except Exception".
FaultKinds == {"FileNotFoundError", "OSError"}

FaultLine(a, exc) ==
    IF a.tool = "robocopy" THEN L("Failed to execute RoboCopy:", exc)
    ELSE IF exc = "FileNotFoundError"
         THEN L("Command or PsExec executable not found.", RegCmd(a))
         ELSE L("Failed to execute command for", a.source)

ExitLine(a, c) ==
    IF a.tool = "robocopy" THEN L("RoboCopy exited with code", ToString(c))
    ELSE L("exited with code", ToString(c))

\* The environment may raise another exception.
CanFault == Cardinality(faults) < env.maxFaults

\* The value the runner returns when an exception is caught.
FaultCode == -1

Finish(t, r, lines) ==
    /\ result' = [result EXCEPT ![t] = r]
    /\ tlog' = [tlog EXCEPT ![t] = @ \o lines]
    /\ pc' = [pc EXCEPT ![t] = "done"]

\* Whether the runner short-circuits before Popen.
SkipsLaunch_never(a) == FALSE
SkipsLaunch(a) == a.dry_run

\* What the runner returns once wait() has given the exit code c.
ReturnCode(c) == c

\* What the runner does with an exception raised by Popen, the stream or
\* wait(): log it and return the sentinel.
CaughtFault_reraise(t, a, before, exc) == Finish(t, Raised, before)
CaughtFault(t, a, before, exc) ==
    Finish(t, Ret(FaultCode), before \o <<FaultLine(a, exc)>>)

RunnerStart(t) ==
    /\ pc[t] = "calling"
    /\ LET a == rargs[t] IN
       \/ /\ SkipsLaunch(a)
          /\ Finish(t, Ret(0), RunnerPrologue(a) \o <<DryRunLine(a)>>)
          /\ UNCHANGED <<outLeft, launched, faults>>
       \/ /\ ~SkipsLaunch(a)
          /\ \E k \in 0..env.maxLines :
                outLeft' = [outLeft EXCEPT ![t] = k]
          /\ launched' = [launched EXCEPT ![t] = @ + 1]
          /\ tlog' = [tlog EXCEPT ![t] = @ \o RunnerPrologue(a) \o LaunchLines(a)]
          /\ pc' = [pc EXCEPT ![t] = "invoking"]
          /\ UNCHANGED <<result, faults>>
       \/ /\ ~SkipsLaunch(a)
          /\ CanFault
          /\ faults' = faults \cup {<<"Popen", t>>}
          /\ \E exc \in FaultKinds :
                CaughtFault(t, a, RunnerPrologue(a) \o LaunchLines(a), exc)
          /\ UNCHANGED <<outLeft, launched>>
    /\ UNCHANGED <<mvars, avars, probed, entry, wvars, dvars, rargs, dlog, dirs, env>>

\* for line in process.stdout: logger.info(line.rstrip())
ReadLine(t) ==
    /\ pc[t] = "invoking"
    /\ outLeft[t] > 0
    /\ outLeft' = [outLeft EXCEPT ![t] = @ - 1]
    /\ tlog' = [tlog EXCEPT ![t] =
                  @ \o <<L(IF rargs[t].tool = "robocopy" THEN "" ELSE "Output for", "line")>>]
    /\ UNCHANGED <<mvars, avars, probed, entry, wvars, dvars, pc, rargs, result, launched, dlog, dirs, faults, env>>

\* The stream is iterated to its end before process.wait() is called.
StreamDrained_any(t) == TRUE
StreamDrained(t) == outLeft[t] = 0

\* returncode = process.wait(); return returncode
RunnerWait(t) ==
    /\ pc[t] = "invoking"
    /\ StreamDrained(t)
    /\ \E c \in env.codes :
          Finish(t, Ret(ReturnCode(c)), <<ExitLine(rargs[t], c)>>)
    /\ UNCHANGED <<mvars, avars, probed, entry, wvars, dvars, rargs, outLeft, launched, dlog, dirs, faults, env>>

\* An exception while streaming or waiting, caught by the runner.
RunnerFault(t) ==
    /\ pc[t] = "invoking"
    /\ CanFault
    /\ faults' = faults \cup {<<"stream", t>>}
    /\ \E exc \in FaultKinds : CaughtFault(t, rargs[t], <<>>, exc)
    /\ UNCHANGED <<mvars, avars, probed, entry, wvars, dvars, rargs, outLeft, launched, dlog, dirs, env>>

\* ------------------------------------------------------- the dispatchers
\* The locals of a dispatcher call and of its tasks before the call starts.
FreshPool ==
    /\ psexec' = PyNone
    /\ workers' = 0
    /\ nsub' = 0
    /\ futures' = [t \in Slots |-> ""]
    /\ records' = <<>>
FreshTasks ==
    /\ result' = [t \in Slots |-> NoResult]
    /\ outLeft' = [t \in Slots |-> 0]
    /\ launched' = [t \in Slots |-> 0]
    /\ tlog' = [t \in Slots |-> <<>>]

\* Where the filesystem has the executable find_executable looks for.
Places == {"cwd", "PATH", "nowhere"}

\* find_executable, lines 11-37: the current directory first, then the
\* directories of PATH.  probes are the os.path.exists/isfile questions it
\* asked, with their answers.
find_executable(name, where) ==
    IF where = "cwd"
    THEN [path |-> "CWD\\" \o name,
          probes |-> {<<name, TRUE>>},
          lines |-> <<L("Found in current directory:", "CWD\\" \o name)>>]
    ELSE IF where = "PATH"
    THEN [path |-> "PATH\\" \o name,
          probes |-> {<<name, FALSE>>, <<"PATH\\" \o name, TRUE>>},
          lines |-> <<L("Found in PATH:", "PATH\\" \o name)>>]
    ELSE [path |-> PyNone,
          probes |-> {<<name, FALSE>>, <<"PATH\\" \o name, FALSE>>},
          lines |-> <<L("Executable not found in PATH or current directory.", name)>>]

\* reg_export, lines 136-155: the helper reg_export will use, or the abort.
\* customIsFile: whether the override path is an existing file.
LocatePsExec_fallback(use, custom, customIsFile, where) ==
    LET f == find_executable("PsExec.exe", where) IN
    IF ~use
    THEN [path |-> PyNone, abort |-> FALSE, probes |-> {}, lines |-> <<>>]
    ELSE IF TruthyStr(custom) /\ customIsFile
    THEN [path |-> custom, abort |-> FALSE, probes |-> {<<custom, customIsFile>>},
          lines |-> <<>>]
    ELSE [path |-> f.path, abort |-> f.path = PyNone,
          probes |-> f.probes \cup (IF TruthyStr(custom) THEN {<<custom, FALSE>>} ELSE {}),
          lines |-> f.lines \o
             (IF f.path = PyNone
              THEN <<L("PsExec.exe not found in system PATH or current directory.", "")>>
              ELSE <<>>)]
LocatePsExec(use, custom, customIsFile, where) ==
    LET f == find_executable("PsExec.exe", where) IN
    IF ~use
    THEN [path |-> PyNone, abort |-> FALSE, probes |-> {}, lines |-> <<>>]
    ELSE IF TruthyStr(custom)
    THEN [path |-> custom, abort |-> ~customIsFile, probes |-> {<<custom, customIsFile>>},
          lines |-> IF customIsFile THEN <<>>
                    ELSE <<L("PsExec executable not found at specified custom path:", custom)>>]
    ELSE [path |-> f.path, abort |-> f.path = PyNone, probes |-> f.probes,
          lines |-> f.lines \o
             (IF f.path = PyNone
              THEN <<L("PsExec.exe not found in system PATH or current directory.", "")>>
              ELSE <<>>)]

\* reg_export, lines 136-160: locate PsExec, then create the destination.
RegMakesDir(c) == TRUE

PrepareRegExport ==
    /\ dpc = "start"
    /\ call.fn = "reg_export"
    /\ \E customIsFile \in BOOLEAN, where \in Places :
        LET loc == LocatePsExec(call.use_psexec, call.psexec_custom_path, customIsFile, where)
        IN
        /\ probed' = probed \cup loc.probes
        /\ \/ /\ loc.abort
              /\ dlog' = dlog \o loc.lines
              /\ dpc' = "returned"
              /\ UNCHANGED <<psexec, dirs, faults>>
           \/ /\ ~loc.abort
              /\ psexec' = loc.path
              /\ \/ /\ call.dst_directory = PyNone          \* os.path.normpath(None)
                    /\ dpc' = "raised"
                    /\ dlog' = dlog \o loc.lines
                    /\ UNCHANGED <<dirs, faults>>
                 \/ /\ call.dst_directory # PyNone
                    /\ RegMakesDir(call)
                    /\ CanFault                              \* os.makedirs raises
                    /\ faults' = faults \cup {<<"makedirs", 0>>}
                    /\ dpc' = "raised"
                    /\ dlog' = dlog \o loc.lines
                    /\ UNCHANGED dirs
                 \/ /\ call.dst_directory # PyNone
                    /\ dirs' = IF RegMakesDir(call) THEN dirs \cup {call.dst_directory} ELSE dirs
                    /\ dlog' = dlog \o loc.lines
                                    \o <<L("Ensured destination directory exists:",
                                           call.dst_directory)>>
                    /\ dpc' = "pool"
                    /\ UNCHANGED faults
    /\ UNCHANGED <<mvars, avars, entry, wvars, call, workers, nsub, futures, records, tvars, env>>

\* with ThreadPoolExecutor(max_workers=...): a pool of no workers is refused
\* with ValueError.
CreatePool ==
    /\ \/ dpc = "start" /\ call.fn \in {"copy_appdata_subdirs", "copy_program_files"}
       \/ dpc = "pool"
    /\ LET mw == IF call.fn = "copy_program_files" THEN ProgramFilesPoolSize(N)
                 ELSE PoolSize(call.fn, N) IN
       IF mw <= 0
       THEN /\ dpc' = "raised"
            /\ UNCHANGED <<workers, records>>
       ELSE /\ workers' = mw
            /\ dpc' = IF N = 0 THEN "collect" ELSE "submit"
            /\ records' = [w \in {Identity(call.fn, call.items[i]) : i \in 1..N} |-> <<>>]
    /\ dlog' = dlog \o <<L(IF call.fn = "reg_export"
                           THEN "Starting concurrent export of registry items..."
                           ELSE "Starting threaded copy of AppData subfolders", ToString(N))>>
    /\ UNCHANGED <<mvars, avars, probed, entry, wvars, call, psexec, nsub, futures, tvars, dirs, faults, env>>

\* executor.submit(task, entry): entry for entry in ...
Submit ==
    /\ dpc = "submit"
    /\ nsub < N
    /\ nsub' = nsub + 1
    /\ pc' = [pc EXCEPT ![nsub + 1] = "queued"]
    /\ futures' = [futures EXCEPT ![nsub + 1] = Identity(call.fn, call.items[nsub + 1])]
    /\ dpc' = IF nsub + 1 = N THEN "collect" ELSE "submit"
    /\ UNCHANGED <<mvars, avars, probed, entry, wvars, call, psexec, workers, records, rargs, result, outLeft,
                   launched, tlog, dlog, dirs, faults, env>>

\* Whether copy_single_subdir calls os.makedirs.
TaskMakesDir_never(c) == FALSE
TaskMakesDir(c) == ~c.dry_run

\* A worker takes the oldest queued task and runs it up to its runner call:
\* copy_single_subdir (lines 201-210) or export_single_path (lines 162-178).
TaskBegin(t) ==
    /\ dpc \in {"submit", "collect"}
    /\ pc[t] = "queued"
    /\ \A u \in Slots : u < t => pc[u] # "queued"
    /\ Cardinality(Running) < workers
    /\ LET item == call.items[t] IN
       IF call.fn = "reg_export"
       THEN /\ rargs' = [rargs EXCEPT ![t] =
                   [tool |-> "reg", source |-> Flatten(item),
                    destination |-> PathJoin(call.dst_directory, base_name(item) \o ".reg"),
                    dry_run |-> call.dry_run, psexec_path |-> psexec]]
            /\ tlog' = [tlog EXCEPT ![t] = @ \o <<L("Exporting", Flatten(item))>>]
            /\ pc' = [pc EXCEPT ![t] = "calling"]
            /\ UNCHANGED <<result, dirs, faults>>
       ELSE LET src == PathJoin(call.source_root, item)
                dst == PathJoin(call.dest_root, item)
                a == [tool |-> "robocopy", source |-> src, destination |-> dst,
                      options |-> ROBOCOPY_OPTIONS, additional |-> None,
                      exclude_dirs |-> call.exclude_dirs, exclude_files |-> None,
                      dry_run |-> call.dry_run, psexec_path |-> PyNone]
            IN
            \/ /\ rargs' = [rargs EXCEPT ![t] = a]
               /\ dirs' = IF TaskMakesDir(call) THEN dirs \cup {dst} ELSE dirs
               /\ tlog' = [tlog EXCEPT ![t] = @ \o
                    <<L(IF TaskMakesDir(call) THEN "[Thread] Creating AppData subfolder:"
                        ELSE "[Thread] Skipping folder creation (dry run):", item)>>]
               /\ pc' = [pc EXCEPT ![t] = "calling"]
               /\ UNCHANGED <<result, faults>>
            \/ /\ TaskMakesDir(call)                      \* os.makedirs raises
               /\ CanFault
               /\ faults' = faults \cup {<<"makedirs", t>>}
               /\ result' = [result EXCEPT ![t] = Raised]
               /\ tlog' = [tlog EXCEPT ![t] = @ \o
                    <<L("[Thread] Creating AppData subfolder:", item)>>]
               /\ pc' = [pc EXCEPT ![t] = "done"]
               /\ UNCHANGED <<rargs, dirs>>
    /\ UNCHANGED <<mvars, avars, probed, entry, wvars, dvars, outLeft, launched, dlog, env>>

\* The identity a completion record is logged under: futures[future].
RecordIdentity_last(t) == futures[N]
RecordIdentity(t) == futures[t]

\* What the as_completed loop logs for a finished future.
CompletionRecord_only_success(t) ==
    IF result[t].kind = "ret" /\ result[t].code = 0
    THEN <<[who |-> RecordIdentity(t), msg |-> "Finished", code |-> result[t].code]>>
    ELSE <<>>
CompletionRecord_swallow(t) ==
    IF result[t].kind = "ret"
    THEN <<[who |-> RecordIdentity(t), msg |-> "Finished", code |-> result[t].code]>>
    ELSE <<>>
CompletionRecord(t) ==
    IF result[t].kind = "ret"
    THEN <<[who |-> RecordIdentity(t), msg |-> "Finished", code |-> result[t].code]>>
    ELSE <<[who |-> RecordIdentity(t), msg |-> "Error", code |-> 0]>>

\* One iteration of "for future in as_completed(futures)".
Collect(t) ==
    /\ dpc = "collect"
    /\ pc[t] = "done"
    /\ pc' = [pc EXCEPT ![t] = "collected"]
    /\ records' = [records EXCEPT ![RecordIdentity(t)] = @ \o CompletionRecord(t)]
    /\ UNCHANGED <<mvars, avars, probed, entry, wvars, call, dpc, psexec, workers, nsub, futures, rargs, result,
                   outLeft, launched, tlog, dlog, dirs, faults, env>>

\* as_completed has yielded every future and the with block has shut the
\* pool down, waiting for its workers.
PoolDrained_first == \E t \in 1..N : pc[t] = "collected"
PoolDrained == \A t \in 1..N : pc[t] = "collected"

\* as_completed is exhausted and the pool is shut down (waiting for its
\* workers); the dispatcher returns.
DispatchReturn ==
    /\ dpc = "collect"
    /\ PoolDrained
    /\ dpc' = "returned"
    /\ dlog' = IF call.fn = "reg_export"
               THEN dlog \o <<L("Finished all registry export operations.", "")>>
               ELSE dlog
    /\ UNCHANGED <<mvars, avars, probed, entry, wvars, call, psexec, workers, nsub, futures, records, tvars,
                   dirs, faults, env>>

\* ------------------------------------------------------------- main.py
\* ensure_directory(path, dry_run)
EnsuresDir(dry_run) == ~dry_run

\* Path of the local destination in every modelled call.
DestRoot == "D:\\Backup"
SourceRoot == "\\\\PC\\C$\\Users\\u"
CustomPsExec == "C:\\Tools\\PsExec.exe"

EnsureDirectoryEffect(path, dry_run) ==
    /\ dirs' = IF EnsuresDir(dry_run) THEN dirs \cup {path} ELSE dirs
    /\ dlog' = dlog \o <<L(IF EnsuresDir(dry_run)
                           THEN "Ensured destination directory exists:"
                           ELSE "Skipping destination directory creation:", path)>>

\* ensure_directory called on its own.
EnsureDirectory ==
    /\ dpc = "start"
    /\ call.fn = "ensure_directory"
    /\ EnsureDirectoryEffect(call.path, call.dry_run)
    /\ dpc' = "returned"
    /\ UNCHANGED <<mvars, avars, probed, entry, wvars, call, psexec, workers, nsub, futures, records, tvars, faults, env>>

\* build_unc_source(remote_machine, subpath, folder)
build_unc_source(remote_machine, subpath, folder) ==
    "\\\\" \o remote_machine \o "\\" \o subpath \o "\\" \o folder

\* The configuration main reads (config.toml) and the names it is given.
RemoteMachine == "PC"
UserName == "u"
USER_PROFILE_SUBPATH == "C$\\Users"
SYS_DISK == "C$"
PROGRAM_FILES_DIR == "Program Files (x86)"
APPDATA_NAME == <<"AppData">>
ROBOCOPY_EXCLUDE_FILES == <<"NTUSER.DAT", "UsrClass.dat">>
ROBOCOPY_EXCLUDE_DIRS == <<"Default\\Cache", "Default\\Code Cache">>
\* Task lists of length n.
AppDataItems(n) == [i \in 1..n |-> "AppData\\Local\\App" \o ToString(i)]
\* REGISTRY_INCLUDES: distinct key paths.  Key names may hold spaces,
\* colons, slashes and underscores.
RegItems(n) ==
    [i \in 1..n |->
        CASE i = 1 -> <<"HKEY_", "CURRENT_USER", "\\", "Software", "\\", "Test">>
          [] i = 2 -> <<"HKEY_", "CURRENT_USER", "\\", "Software", "\\",
                        "My", " ", "App", ":", "1", "/", "x">>
          [] i = 3 -> <<"HKEY_", "CURRENT_USER", "\\", "Software", "\\", "My_App_1_x">>
          [] OTHER -> <<"HKEY_", "CURRENT_USER", "\\", "Software", "\\", "Key" \o ToString(i)>>]
RoamingItems(n) == [i \in 1..n |-> "AppData\\Roaming\\App" \o ToString(i)]
ProgramItems(n) == [i \in 1..n |-> "Prog" \o ToString(i)]
\* What the user types when asked for a destination path or disk.
TypedDest == "E:\\Typed"
TypedDisk == "C:"

\* The stage names, in the order main runs them.
StageOrder == <<"root", "local", "roaming", "motw", "prog", "reg", "final">>
StageAfter_repeat(st) == st
StageAfter(st) ==
    StageOrder[(CHOOSE k \in 1..Len(StageOrder) : StageOrder[k] = st) + 1]

\* sys.exit(code)
Exit(code) == mpc' = "exited" /\ status' = code

\* A stage call is made: who is called and the dry_run the callee runs under.
NoteStage(st, dry) == stages' = Append(stages, [stage |-> st, dry_run |-> dry])

\* A dispatcher is entered with the bound parameters c.
EnterDispatch(c) ==
    /\ call' = c
    /\ dpc' = "start"
    /\ FreshPool
    /\ FreshTasks
    /\ pc' = [t \in Slots |-> "none"]
    /\ rargs' = [t \in Slots |-> NoArgs]
    /\ faults' = {}

\* What the user types at a y/n prompt: only blanks, an upper-case yes, a no.
TypedAnswers == {" ", "YES", "no"}

\* str.strip() and str.lower() on what can be typed.
Strip(s) == IF s = " " THEN "" ELSE s
Lower(s) == IF s = "Y" THEN "y" ELSE IF s = "YES" THEN "yes" ELSE s

\* prompt_for_input, lines 54-62: response.strip() or default
prompt_for_input(typed, default) ==
    IF Strip(typed) # "" THEN Strip(typed) ELSE default

\* main, lines 152, 194 and 211: the negation of
\* confirm.lower() not in ("y", "yes")
Confirmed_any(confirm) == TRUE
Confirmed(confirm) == Lower(confirm) \in {"y", "yes"}

\* main, lines 195-196 and 212-213: a declined optional stage st is logged
\* and main goes on to what follows the stage.
AfterDeclined_final(st) == "final"
AfterDeclined(st) == StageAfter(st)

\* main asks a y/n question and gets the answer confirm.
Ask(prompt, confirm) == asked' = Append(asked, [prompt |-> prompt, answer |-> confirm])

\* main, lines 132-134: the names are required.  namesGiven: both
\* "args.x or prompt" expressions gave a non-empty name.
MainStart ==
    /\ mpc = "start"
    /\ \E namesGiven \in BOOLEAN :
          IF namesGiven
          THEN /\ mpc' = "gate"
               /\ dlog' = dlog \o <<L("UNC source:",
                                      build_unc_source(RemoteMachine, USER_PROFILE_SUBPATH, UserName)),
                                    L("Destination:", destination)>>
               /\ UNCHANGED status
          ELSE /\ Exit(1)
               /\ dlog' = dlog \o <<L("Remote machine name and username are required.", "")>>
    /\ UNCHANGED <<avars, probed, asked, entry, wvars, dvars, tvars, dirs, faults, env, args, destination, stages>>

\* ---------------------------------------------------------------------
\* unc_utils.py: check_unc_access and prompt_user_to_authenticate
\* ---------------------------------------------------------------------

\* check_unc_access(unc_path): os.path.exists(unc_path).
check_unc_access == reachable

\* The default of prompt_user_to_authenticate's timeout parameter.
DefaultTimeout == 120

\* prompt_user_to_authenticate, lines 61-63: what the except clause does when
\* subprocess.Popen raises: the call is over and its value is False.
OnLaunchFailure_retry == [apc |-> "start", success |-> FALSE]
OnLaunchFailure == [apc |-> "returned", success |-> FALSE]

\* prompt_user_to_authenticate, lines 47-59: one pass of the polling loop
\* over the Explorer process p, e seconds after start_time.
PollOutcome_forever(p, e, t) ==
    IF p = "exited" THEN "True" ELSE "sleep"
PollOutcome(p, e, t) ==
    IF p = "exited" THEN "True"
    ELSE IF e >= t THEN "False"
    ELSE "sleep"

\* prompt_user_to_authenticate, lines 38-45 and 61-63: the announcement and
\* subprocess.Popen(["explorer", unc_root]), which starts Explorer or raises.
AuthLaunch ==
    /\ apc = "start"
    /\ launches' = launches + 1
    /\ \E started \in BOOLEAN :
          IF started
          THEN /\ proc' = "running"
               /\ apc' = "polling"
               /\ elapsed' = 0
               /\ dlog' = dlog \o <<L("Opening Explorer", "")>>
               /\ UNCHANGED success
          ELSE /\ proc' = "failed"
               /\ apc' = OnLaunchFailure.apc
               /\ success' = OnLaunchFailure.success
               /\ dlog' = dlog \o <<L("Opening Explorer", ""),
                                    L("Failed to launch Explorer", "")>>
               /\ UNCHANGED elapsed
    /\ UNCHANGED <<mvars, probed, entry, wvars, dvars, tvars, dirs, faults, env,
                   timeout, polls, reachable>>

\* prompt_user_to_authenticate, lines 47-59: one pass of "while True".
AuthPoll ==
    /\ apc = "polling"
    /\ polls' = polls + 1
    /\ LET o == PollOutcome(proc, elapsed, timeout) IN
          IF o = "True"
          THEN /\ apc' = "returned"
               /\ success' = TRUE
               /\ dlog' = dlog \o <<L("Explorer window closed.", "")>>
               /\ UNCHANGED elapsed
          ELSE IF o = "False"
          THEN /\ apc' = "returned"
               /\ success' = FALSE
               /\ dlog' = dlog \o <<L("Timeout reached while waiting for Explorer to close.", "")>>
               /\ UNCHANGED elapsed
          ELSE /\ elapsed' = elapsed + 1
               /\ UNCHANGED <<apc, success, dlog>>
    /\ UNCHANGED <<mvars, probed, entry, wvars, dvars, tvars, dirs, faults, env,
                   timeout, proc, launches, reachable>>

\* The user closes the Explorer window: proc.poll() is no longer None.
ExplorerExits ==
    /\ apc = "polling"
    /\ proc = "running"
    /\ proc' = "exited"
    /\ UNCHANGED <<mvars, probed, entry, wvars, dvars, tvars, dlog, dirs, faults, env,
                   apc, timeout, elapsed, success, launches, polls, reachable>>

\* During the call the user signs in to the share, or the share comes up
\* or goes away: what os.path.exists answers for the path changes.
AccessChanges ==
    /\ apc \in {"start", "polling"}
    /\ reachable' = ~reachable
    /\ UNCHANGED <<mvars, probed, entry, wvars, dvars, tvars, dlog, dirs, faults, env,
                   apc, timeout, proc, elapsed, success, launches, polls>>

\* main, lines 141-143: the first check_unc_access, and the call of
\* prompt_user_to_authenticate(rf"\\{remote_machine}") when it fails.
MainGate ==
    /\ mpc = "gate"
    /\ IF check_unc_access
       THEN /\ mpc' = "ensure"
            /\ UNCHANGED <<dlog, apc, timeout>>
       ELSE /\ mpc' = "auth"
            /\ apc' = "start"
            /\ timeout' = DefaultTimeout
            /\ dlog' = dlog \o <<L("UNC path not accessible. Attempting authentication...", "")>>
    /\ UNCHANGED <<probed, asked, entry, wvars, dvars, tvars, dirs, faults, env, args,
                   destination, stages, status,
                   proc, elapsed, success, launches, polls, reachable>>

\* main, line 144: "if not success or not check_unc_access(unc_source)",
\* negated: the run goes on.
GatePasses_either(ok, exists) == ok \/ exists
GatePasses(ok, exists) == ok /\ exists

\* main, lines 143-146: prompt_user_to_authenticate has returned.  When the
\* run goes on, the call's frame is gone.
MainAfterAuth ==
    /\ mpc = "auth"
    /\ apc = "returned"
    /\ IF GatePasses(success, check_unc_access)
       THEN /\ mpc' = "ensure"
            /\ apc' = "off"
            /\ timeout' = 0
            /\ proc' = "none"
            /\ elapsed' = 0
            /\ success' = FALSE
            /\ launches' = 0
            /\ polls' = 0
            /\ UNCHANGED <<status, dlog>>
       ELSE /\ Exit(1)
            /\ dlog' = dlog \o <<L("UNC path still inaccessible. Exiting.", "")>>
            /\ UNCHANGED <<apc, timeout, proc, elapsed, success, launches, polls>>
    /\ UNCHANGED <<probed, asked, entry, wvars, dvars, tvars, dirs, faults, env, args,
                   destination, stages, reachable>>

\* main, line 149: ensure_directory(destination, dry_run)
MainEnsureDirectory ==
    /\ mpc = "ensure"
    /\ EnsureDirectoryEffect(destination, args.dryrun)
    /\ mpc' = "confirm"
    /\ UNCHANGED <<avars, probed, asked, entry, wvars, dvars, tvars, faults, env, args, destination, stages, status>>

\* main, lines 152-155: "Proceed with sync? (y/n)"
MainConfirm ==
    /\ mpc = "confirm"
    /\ \E typed \in TypedAnswers :
          LET confirm == prompt_for_input(typed, "y") IN
          /\ Ask("Proceed with sync? (y/n)", confirm)
          /\ IF Confirmed(confirm)
             THEN mpc' = "root" /\ UNCHANGED <<status, dlog>>
             ELSE /\ Exit(0)
                  /\ dlog' = dlog \o <<L("Operation cancelled by user.", "")>>
    /\ UNCHANGED <<avars, probed, entry, wvars, dvars, tvars, dirs, faults, env, args, destination, stages>>

\* The position of main while the stage st it has called is running.
InStage(st) == st \o ":running"
DispatchStages == {"local", "roaming", "prog", "reg"}

\* copy_profile_root's parameters in order, as robocopy_runner.py defines it.
copy_profile_root_params ==
    <<"ROBOCOPY_OPTIONS", "source_root", "dest_root", "exclude_files", "dry_run">>

\* The copy_profile_root main is written against: main passes exclude_dirs
\* by keyword and imports copy_program_files, which the robocopy_runner.py
\* at hand does not provide.
copy_profile_root_params_imported ==
    <<"ROBOCOPY_OPTIONS", "source_root", "dest_root", "exclude_dirs", "exclude_files", "dry_run">>

\* The robocopy_runner modules main can be run with.
Runners == {"src", "imported"}
RootParams(runner) ==
    IF runner = "src" THEN copy_profile_root_params ELSE copy_profile_root_params_imported

\* Python's binding of a call with nPos positional arguments and the keyword
\* arguments kws to the parameters params: a keyword that names no
\* parameter, or one already bound by position, is a TypeError.
Binds(params, nPos, kws) ==
    /\ nPos <= Len(params)
    /\ \A kw \in kws : \E i \in (nPos + 1)..Len(params) : params[i] = kw

\* copy_profile_root, lines 173-179: the directory exclusion it passes on.
\* The function main is written against passes on what it is given.
RootExcludeDirs(runner, given) == IF runner = "src" THEN <<"AppData">> ELSE given

\* main, lines 158-165: copy_profile_root(ROBOCOPY_OPTIONS, unc_source,
\* destination, exclude_dirs=..., exclude_files=..., dry_run=...), which
\* logs and calls run_robocopy through robocopy_folder.  When the call does
\* not bind, the TypeError leaves main: nothing in main catches it.
MainRootCopy ==
    /\ mpc = "root"
    /\ IF Binds(RootParams(env.runner), 3, {"exclude_dirs", "exclude_files", "dry_run"})
       THEN /\ call' = [fn |-> "copy_profile_root", items |-> <<>>, dry_run |-> args.dryrun]
            /\ dpc' = "idle"
            /\ FreshPool
            /\ FreshTasks
            /\ pc' = [t \in Slots |-> IF t = 1 THEN "calling" ELSE "none"]
            /\ rargs' = [t \in Slots |->
                  IF t = 1
                  THEN [tool |-> "robocopy",
                        source |-> build_unc_source(RemoteMachine, USER_PROFILE_SUBPATH, UserName),
                        destination |-> destination, options |-> ROBOCOPY_OPTIONS,
                        additional |-> None,
                        exclude_dirs |-> Some(RootExcludeDirs(env.runner, APPDATA_NAME)),
                        exclude_files |-> Some(ROBOCOPY_EXCLUDE_FILES),
                        dry_run |-> args.dryrun, psexec_path |-> PyNone]
                  ELSE NoArgs]
            /\ faults' = {}
            /\ dlog' = dlog \o <<L("Copying user profile root (excluding AppData)...", "")>>
            /\ NoteStage("root", args.dryrun)
            /\ mpc' = InStage("root")
            /\ UNCHANGED status
       ELSE /\ mpc' = "crashed"
            /\ status' = 1
            /\ dlog' = dlog \o <<L("TypeError: copy_profile_root() got an unexpected keyword argument",
                                   "exclude_dirs")>>
            /\ UNCHANGED <<dvars, tvars, faults, stages>>
    /\ UNCHANGED <<avars, probed, asked, entry, wvars, dirs, env, args, destination>>

\* main, lines 168-184: the two AppData dispatches.
MainAppData(st) ==
    /\ st \in {"local", "roaming"}
    /\ mpc = st
    /\ \E n \in env.lens[st] :
          EnterDispatch(
            [fn |-> "copy_appdata_subdirs",
             items |-> IF st = "local" THEN AppDataItems(n) ELSE RoamingItems(n),
             dry_run |-> args.dryrun,
             source_root |-> build_unc_source(RemoteMachine, USER_PROFILE_SUBPATH, UserName),
             dest_root |-> destination,
             exclude_dirs |-> IF st = "local" THEN Some(ROBOCOPY_EXCLUDE_DIRS) ELSE None])
    /\ NoteStage(st, args.dryrun)
    /\ mpc' = InStage(st)
    /\ UNCHANGED <<avars, probed, asked, entry, wvars, dlog, dirs, env, args, destination, status>>

\* The stage main called has returned.
MainStageReturn ==
    /\ \E st \in DispatchStages \cup {"root"} :
          /\ mpc = InStage(st)
          /\ IF st = "root" THEN pc[1] = "done" ELSE dpc = "returned"
          /\ mpc' = StageAfter(st)
    /\ UNCHANGED <<avars, probed, asked, entry, wvars, dvars, tvars, dlog, dirs, faults, env, args, destination,
                   stages, status>>

\* An exception left the dispatcher main called: nothing in main catches it.
MainStageRaised ==
    /\ \E st \in DispatchStages : mpc = InStage(st)
    /\ dpc = "raised"
    /\ mpc' = "crashed"
    /\ status' = 1
    /\ UNCHANGED <<avars, probed, asked, entry, wvars, dvars, tvars, dlog, dirs, faults, env, args, destination, stages>>

\* ------------------------------------------------------------ remove_motw

\* A file name is the list of its pieces: the stem, then each dot-suffix.
\* os.path.splitext(file_name)[1]: the last dot-suffix, "" when there is none.
splitext(n) == IF Len(n) > 1 THEN n[Len(n)] ELSE ""

\* str.lower() on the extensions that occur.
ExtLower(e) ==
    CASE e = ".URL" -> ".url"
      [] e = ".Url" -> ".url"
      [] e = ".LNK" -> ".lnk"
      [] e = ".Lnk" -> ".lnk"
      [] OTHER -> e

\* remove_mark_of_the_web_from_shortcuts, lines 89-92: the extension test
IsShortcut_cased(n) == splitext(n) \in {".url", ".lnk"}
IsShortcut(n) == ExtLower(splitext(n)) \in {".url", ".lnk"}

\* How the filesystem answers for the Zone.Identifier stream of a file:
\*   "plain"       it opens, and os.remove deletes it
\*   "unreadable"  opening it raises an OSError other than FileNotFoundError
\*   "lost"        it is gone when os.remove is called: FileNotFoundError
\*   "del"         os.remove raises OSError, "cmd /c del" deletes it and exits 0
\*   "gone"        os.remove raises OSError, it is gone when "cmd /c del" runs,
\*                 which exits 0 and writes "Could not find ..." to stderr
\*   "nofile"      the same, with "File not found" on stderr
\*   "stuck"       os.remove raises OSError, "cmd /c del" exits non-zero
\*   "nocmd"       os.remove raises OSError, subprocess.run raises
StreamKinds == {"plain", "unreadable", "lost", "del", "gone", "nofile", "stuck", "nocmd"}

\* os.path.join(root, file_name) for a file of the walk
file_path(top, f) ==
    IF f.dir = "" THEN PathJoin(top, Flatten(f.name))
    ELSE PathJoin(PathJoin(top, f.dir), Flatten(f.name))

\* has_zone_identifier_ads, lines 8-26
has_zone_identifier_ads(f, marked) ==
    IF f.fs = "unreadable" THEN FALSE ELSE marked

\* The messages logger.error is called with.
ErrorMessages == {"Failed to remove MotW from", "Subprocess error for"}

\* os.remove(full_ads_path), lines 53-58: what it does or raises.
os_remove(f, marked) ==
    IF ~marked \/ f.fs = "lost" THEN "FileNotFoundError"
    ELSE IF f.fs \in {"plain", "unreadable"} THEN "removed"
    ELSE "OSError"

\* subprocess.run('cmd /c del /f /q ...', capture_output=True), lines 61-64:
\* the completed process, its stderr as a list of phrases.
del_command(f) ==
    CASE f.fs = "del" -> [raised |-> FALSE, returncode |-> 0, stderr |-> <<>>]
      [] f.fs = "gone" -> [raised |-> FALSE, returncode |-> 0,
                           stderr |-> <<"Could not find", " ", "the stream">>]
      [] f.fs = "nofile" -> [raised |-> FALSE, returncode |-> 0, stderr |-> <<"File not found">>]
      [] f.fs = "nocmd" -> [raised |-> TRUE, returncode |-> 0, stderr |-> <<>>]
      [] OTHER -> [raised |-> FALSE, returncode |-> 1, stderr |-> <<"Access is denied.">>]

\* Lines 67-70: "Could not find" in result.stderr or "File not found" in
\* result.stderr
SaysAbsent_never(stderr) == FALSE
SaysAbsent(stderr) ==
    \E k \in 1..Len(stderr) : stderr[k] \in {"Could not find", "File not found"}

\* _remove_ads, lines 46-83: whether the stream is still there afterwards,
\* and what is logged.
remove_ads_keeps(f, path, marked) ==
    [marked |-> marked, lines |-> <<L("Successfully removed MotW from (via os.remove)", path)>>]
remove_ads(f, path, marked) ==
    LET first == os_remove(f, marked) IN
    IF first = "removed"
    THEN [marked |-> FALSE,
          lines |-> <<L("Successfully removed MotW from (via os.remove)", path)>>]
    ELSE IF first = "FileNotFoundError"
    THEN [marked |-> FALSE, lines |-> <<L("No Mark of the Web found for", path)>>]
    ELSE LET tried == L("os.remove failed; trying 'del' command for", path)
             r == del_command(f)
         IN IF r.raised
            THEN [marked |-> TRUE, lines |-> <<tried, L("Subprocess error for", path)>>]
            ELSE IF r.returncode = 0
            THEN IF SaysAbsent(r.stderr)
                 THEN [marked |-> FALSE,
                       lines |-> <<tried, L("No Mark of the Web found for (confirmed by del command)", path)>>]
                 ELSE [marked |-> FALSE,
                       lines |-> <<tried, L("Successfully removed MotW from (via del command)", path)>>]
            ELSE [marked |-> TRUE, lines |-> <<tried, L("Failed to remove MotW from", path)>>]

\* Lines 86-97: the body of the loop for one file of the walk.
visit_file_untested(f, path, marked) ==
    IF IsShortcut(f.name) THEN remove_ads(f, path, marked)
    ELSE [marked |-> marked, lines |-> <<>>]
visit_file(f, path, marked) ==
    IF IsShortcut(f.name)
    THEN IF has_zone_identifier_ads(f, marked)
         THEN LET r == remove_ads(f, path, marked)
              IN [marked |-> r.marked,
                  lines |-> <<L("Processing shortcut with MotW:", Flatten(f.name))>> \o r.lines]
         ELSE [marked |-> marked, lines |-> <<L("Skipping (no MotW):", Flatten(f.name))>>]
    ELSE [marked |-> marked, lines |-> <<>>]

\* Lines 86-87: the file the loops turn to after the one at position c; an
\* exception of a removal is caught inside _remove_ads.
NextFile_stop(c, lines) ==
    IF \E i \in 1..Len(lines) : lines[i].msg \in ErrorMessages
    THEN Len(desktop.files) + 1 ELSE c + 1
NextFile(c, lines) == c + 1

\* remove_mark_of_the_web_from_shortcuts, lines 40-44
MotwStart ==
    /\ spc = "start"
    /\ IF ~desktop.isdir
       THEN /\ reports' = Append(reports, <<L("Desktop folder not found:", desktop.path)>>)
            /\ spc' = "returned"
            /\ UNCHANGED cursor
       ELSE /\ reports' = Append(reports, <<L("Starting Mark of the Web removal in:", desktop.path)>>)
            /\ spc' = "walking"
            /\ cursor' = 1
    /\ UNCHANGED <<marker, desktop>>
    /\ UNCHANGED <<mvars, avars, probed, entry, dvars, tvars, dlog, dirs, faults, env>>

\* Lines 86-97: one file of os.walk, top-down.
MotwVisit ==
    /\ spc = "walking"
    /\ cursor <= Len(desktop.files)
    /\ LET f == desktop.files[cursor]
           r == visit_file(f, file_path(desktop.path, f), marker[cursor])
       IN /\ marker' = [marker EXCEPT ![cursor] = r.marked]
          /\ reports' = [reports EXCEPT ![Len(reports)] = @ \o r.lines]
          /\ cursor' = NextFile(cursor, r.lines)
    /\ UNCHANGED <<spc, desktop>>
    /\ UNCHANGED <<mvars, avars, probed, entry, dvars, tvars, dlog, dirs, faults, env>>

\* Line 99: the walk is over.
MotwFinish ==
    /\ spc = "walking"
    /\ cursor > Len(desktop.files)
    /\ reports' = [reports EXCEPT ![Len(reports)] =
                      Append(@, L("Finished Mark of the Web removal for:", desktop.path))]
    /\ spc' = "returned"
    /\ UNCHANGED <<cursor, marker, desktop>>
    /\ UNCHANGED <<mvars, avars, probed, entry, dvars, tvars, dlog, dirs, faults, env>>

\* The function is called again on the same directory.
MotwAgain ==
    /\ entry = "remove_mark_of_the_web_from_shortcuts"
    /\ spc = "returned"
    /\ Len(reports) < MaxPasses
    /\ spc' = "start"
    /\ UNCHANGED <<cursor, marker, reports, desktop>>
    /\ UNCHANGED <<mvars, avars, probed, entry, dvars, tvars, dlog, dirs, faults, env>>

\* main, lines 186-188: the shortcut post-processing, which takes no dry_run.
MainMotw ==
    /\ mpc = "motw"
    /\ dlog' = Append(dlog, L("Removing MotW from shortcuts in:", PathJoin(destination, "Desktop")))
    /\ NoteStage("motw", FALSE)
    /\ mpc' = InStage("motw")
    /\ spc' = "start"
    /\ UNCHANGED <<cursor, marker, reports, desktop>>
    /\ UNCHANGED <<avars, probed, asked, entry, dvars, tvars, dirs, faults, env, args, destination, status>>

\* main, lines 189-191: the scan has returned.
MainMotwReturn ==
    /\ mpc = InStage("motw")
    /\ spc = "returned"
    /\ dlog' = Append(dlog, L("Profile transfer complete.", ""))
    /\ mpc' = StageAfter("motw")
    /\ UNCHANGED <<wvars, avars, probed, asked, entry, dvars, tvars, dirs, faults, env, args,
                   destination, stages, status>>

\* copy_program_files as main calls it: a dispatch of one copy task per
\* allowlisted subfolder, through the same bounded dispatcher.
ProgramFilesCall(items, dest, dry) ==
    [fn |-> "copy_program_files", items |-> items, dry_run |-> dry,
     source_root |-> build_unc_source(RemoteMachine, SYS_DISK, PROGRAM_FILES_DIR),
     dest_root |-> dest \o "\\" \o PROGRAM_FILES_DIR,
     exclude_dirs |-> Some(ROBOCOPY_EXCLUDE_DIRS)]

\* main, line 105: dry_run = args.dryrun or False, the flag main hands to
\* copy_program_files (line 206).
MainDryRun_never(a) == FALSE
MainDryRun(a) == a.dryrun

\* main, lines 194-208: "Copy Program Files directories? (y/n)"
MainProgramFiles ==
    /\ mpc = "prog"
    /\ \E typed \in TypedAnswers :
          LET confirm == prompt_for_input(typed, "n") IN
          /\ Ask("Copy Program Files directories? (y/n)", confirm)
          /\ IF Confirmed(confirm)
             THEN /\ destination' = IF TruthyStr(args.destination) THEN args.destination
                                    ELSE TypedDisk
                  /\ \E n \in env.lens["prog"] :
                        EnterDispatch(ProgramFilesCall(ProgramItems(n), destination',
                                                       MainDryRun(args)))
                  /\ NoteStage("prog", MainDryRun(args))
                  /\ mpc' = InStage("prog")
                  /\ UNCHANGED dlog
             ELSE /\ dlog' = dlog \o <<L("Operation cancelled by user.", "")>>
                  /\ mpc' = AfterDeclined("prog")
                  /\ UNCHANGED <<dvars, tvars, faults, destination, stages>>
    /\ UNCHANGED <<avars, probed, entry, wvars, dirs, env, args, status>>

\* reg_export's parameters in order, and the defaults of its signature.
reg_export_params == <<"src", "dst_directory", "use_psexec", "dry_run", "psexec_custom_path">>
reg_export_defaults ==
    [use_psexec |-> TRUE, dry_run |-> FALSE, psexec_custom_path |-> PyNone]

\* Python binds positional arguments to the parameters in order; the
\* parameters left over take their defaults.
BindPositional(params, defaults, positional) ==
    [name \in {params[i] : i \in 1..Len(params)} |->
        LET i == CHOOSE k \in 1..Len(params) : params[k] = name
        IN IF i <= Len(positional) THEN positional[i] ELSE defaults[name]]

\* main, lines 211-220: "Export local registry entries? (y/n)"; the call is
\* reg_export(REGISTRY_INCLUDES, destination, dry_run).
MainRegistry ==
    /\ mpc = "reg"
    /\ \E typed \in TypedAnswers :
          LET confirm == prompt_for_input(typed, "n") IN
          /\ Ask("Export local registry entries? (y/n)", confirm)
          /\ IF Confirmed(confirm)
             THEN /\ destination' = args.destination
                  /\ \E n \in env.lens["reg"] :
                       LET b == BindPositional(reg_export_params, reg_export_defaults,
                                               <<RegItems(n), destination', args.dryrun>>)
                       IN /\ EnterDispatch(
                               [fn |-> "reg_export", items |-> b.src, dry_run |-> b.dry_run,
                                dst_directory |-> b.dst_directory, use_psexec |-> b.use_psexec,
                                psexec_custom_path |-> b.psexec_custom_path])
                          /\ NoteStage("reg", b.dry_run)
                  /\ mpc' = InStage("reg")
                  /\ UNCHANGED dlog
             ELSE /\ dlog' = dlog \o <<L("Operation cancelled by user.", "")>>
                  /\ mpc' = AfterDeclined("reg")
                  /\ UNCHANGED <<dvars, tvars, faults, destination, stages>>
    /\ UNCHANGED <<avars, probed, entry, wvars, dirs, env, args, status>>

\* main, lines 222-225: the last prompt, then sys.exit(0).
MainFinal ==
    /\ mpc = "final"
    /\ Exit(0)
    /\ UNCHANGED <<avars, probed, asked, entry, wvars, dvars, tvars, dlog, dirs, faults, env, args, destination, stages>>

\* ------------------------------------------------------- specifications

OptLists == {None, Some(<<>>), Some(<<"AppData">>), Some(<<"Temp", "My Docs">>)}

AppDataCall(n, dry, xd) ==
    [fn |-> "copy_appdata_subdirs", items |-> AppDataItems(n), dry_run |-> dry,
     source_root |-> SourceRoot, dest_root |-> DestRoot, exclude_dirs |-> xd]

RegCall(n, dst, usePsexec, dry, custom) ==
    [fn |-> "reg_export", items |-> RegItems(n), dry_run |-> dry,
     dst_directory |-> dst, use_psexec |-> usePsexec, psexec_custom_path |-> custom]

InitLocals ==
    /\ psexec = PyNone
    /\ workers = 0
    /\ nsub = 0
    /\ futures = [t \in Slots |-> ""]
    /\ result = [t \in Slots |-> NoResult]
    /\ outLeft = [t \in Slots |-> 0]
    /\ launched = [t \in Slots |-> 0]
    /\ tlog = [t \in Slots |-> <<>>]
    /\ dlog = <<>>
    /\ records = <<>>
    /\ dirs = {}
    /\ faults = {}
    /\ probed = {}

\* main is not running: a function of the package is called on its own.
MainOff ==
    /\ mpc = "off"
    /\ args = [dryrun |-> FALSE, destination |-> PyNone]
    /\ destination = PyNone
    /\ stages = <<>>
    /\ status = -1
    /\ asked = <<>>

\* A folder of the destination and the files os.walk finds in it.
Folder(path, isdir, files) == [path |-> path, isdir |-> isdir, files |-> files]
File(dir, name, fs) == [dir |-> dir, name |-> name, fs |-> fs]
NoFolder == Folder("", FALSE, <<>>)

\* remove_mark_of_the_web_from_shortcuts has not been called.
MotwOff ==
    /\ desktop = NoFolder
    /\ marker = <<>>
    /\ spc = "off"
    /\ cursor = 0
    /\ reports = <<>>

\* The scan has not been called; the folder d holds files marked as m says.
MotwIdle(d, m) ==
    /\ desktop = d
    /\ marker = m
    /\ spc = "off"
    /\ cursor = 0
    /\ reports = <<>>

\* The Desktop folder of the destination holds one marked shortcut.
OneShortcut(dest) ==
    Folder(PathJoin(dest, "Desktop"), TRUE, <<File("", <<"Site", ".url">>, "plain")>>)

\* prompt_user_to_authenticate has not been called.
AuthOff ==
    /\ apc = "off"
    /\ timeout = 0
    /\ proc = "none"
    /\ elapsed = 0
    /\ success = FALSE
    /\ launches = 0
    /\ polls = 0

\* The configuration gives each dispatch stage of main a list of some length.
NoLists == [st \in DispatchStages |-> {}]

FullEnv == [codes |-> ToolExitCodes, maxLines |-> MaxLines, maxFaults |-> MaxFaults,
            lens |-> NoLists, runner |-> "src"]

\* A dispatcher, ensure_directory or a runner is called with arguments
\* drawn from the sets below; reg_export's use_psexec and
\* psexec_custom_path are drawn from uses and customs.
InitDispatch(lens, uses, customs) ==
    /\ entry \in {"copy_appdata_subdirs", "reg_export", "ensure_directory"}
    /\ dpc = "start"
    /\ \E n \in lens, dry \in BOOLEAN :
        \/ /\ entry = "copy_appdata_subdirs"
           /\ call \in {AppDataCall(n, dry, xd) : xd \in {None, Some(<<"Default\\Cache">>)}}
        \/ /\ entry = "reg_export"
           /\ call \in {RegCall(n, DestRoot, u, dry, c) :
                          u \in uses, c \in customs}
        \/ /\ entry = "ensure_directory"
           /\ call = [fn |-> "ensure_directory", items |-> <<>>, dry_run |-> dry,
                      path |-> DestRoot]
    /\ pc = [t \in Slots |-> "none"]
    /\ rargs = [t \in Slots |-> NoArgs]

InitRunner ==
    /\ entry \in {"run_robocopy", "run_regexport"}
    /\ dpc = "idle"
    /\ call = NoCall
    /\ pc = [t \in Slots |-> IF t = 1 THEN "calling" ELSE "none"]
    /\ \E dry \in BOOLEAN :
        \/ /\ entry = "run_robocopy"
           /\ \E add \in {None, Some(<<"/E">>)}, xd \in OptLists, xf \in OptLists :
                rargs = [t \in Slots |->
                    IF t = 1
                    THEN [tool |-> "robocopy", source |-> SourceRoot,
                          destination |-> DestRoot, options |-> ROBOCOPY_OPTIONS,
                          additional |-> add, exclude_dirs |-> xd, exclude_files |-> xf,
                          dry_run |-> dry, psexec_path |-> PyNone]
                    ELSE NoArgs]
        \/ /\ entry = "run_regexport"
           /\ \E p \in {PyNone, CustomPsExec} :
                rargs = [t \in Slots |->
                    IF t = 1
                    THEN [tool |-> "reg", source |-> "HKCU\\Test",
                          destination |-> "C:\\test.reg", dry_run |-> dry,
                          psexec_path |-> p]
                    ELSE NoArgs]

\* prompt_user_to_authenticate is called with a timeout of some seconds.
InitAuth ==
    /\ entry = "prompt_user_to_authenticate"
    /\ dpc = "idle"
    /\ call = NoCall
    /\ pc = [t \in Slots |-> "none"]
    /\ rargs = [t \in Slots |-> NoArgs]
    /\ apc = "start"
    /\ timeout \in 0..MaxTimeout
    /\ proc = "none"
    /\ elapsed = 0
    /\ success = FALSE
    /\ launches = 0
    /\ polls = 0
    /\ reachable \in BOOLEAN

\* A dispatcher, ensure_directory or a runner is called on its own;
\* reg_export is called without the helper here, SpecReg covers its lookup.
Init ==
    /\ InitLocals
    /\ MainOff
    /\ MotwOff
    /\ AuthOff
    /\ reachable = TRUE
    /\ env = FullEnv
    /\ \/ InitDispatch(0..MaxTasks, {FALSE}, {PyNone})
       \/ InitRunner

Next ==
    \/ \E t \in Slots : Collect(t)
    \/ \E t \in Slots : RunnerWait(t)
    \/ \E t \in Slots : ReadLine(t)
    \/ \E t \in Slots : RunnerFault(t)
    \/ Submit
    \/ DispatchReturn
    \/ CreatePool
    \/ PrepareRegExport
    \/ EnsureDirectory
    \/ \E t \in Slots : RunnerStart(t)
    \/ \E t \in Slots : TaskBegin(t)

Spec == Init /\ [][Next]_vars

\* reg_export is called on its own.
InitReg ==
    /\ InitLocals
    /\ MainOff
    /\ MotwOff
    /\ AuthOff
    /\ reachable = TRUE
    /\ env = FullEnv
    /\ InitDispatch(0..MaxTasks, BOOLEAN, {PyNone, CustomPsExec})
    /\ entry = "reg_export"

NextReg ==
    \/ \E t \in Slots : Collect(t)
    \/ \E t \in Slots : RunnerWait(t)
    \/ \E t \in Slots : ReadLine(t)
    \/ \E t \in Slots : RunnerFault(t)
    \/ Submit
    \/ DispatchReturn
    \/ CreatePool
    \/ PrepareRegExport
    \/ \E t \in Slots : RunnerStart(t)
    \/ \E t \in Slots : TaskBegin(t)

SpecReg == InitReg /\ [][NextReg]_vars

\* prompt_user_to_authenticate is called on its own.
InitAuthAlone ==
    /\ InitLocals
    /\ MainOff
    /\ MotwOff
    /\ env = FullEnv
    /\ InitAuth

NextAuth ==
    \/ AuthLaunch
    \/ AuthPoll
    \/ ExplorerExits
    \/ AccessChanges

SpecAuth == InitAuthAlone /\ [][NextAuth]_vars

\* The thread that called prompt_user_to_authenticate keeps running:
\* Popen returns or raises, time.sleep(1) returns and the clock advances,
\* so the call's next step is eventually taken.  Nothing makes the user
\* close the window or the share come up.
SpecAuthFair ==
    InitAuthAlone /\ [][NextAuth]_vars /\ WF_vars(AuthLaunch) /\ WF_vars(AuthPoll)

\* A dispatch of more tasks than the pool has workers; every subprocess
\* prints nothing and exits 0, and nothing raises.
CapEnv == [codes |-> {0}, maxLines |-> 0, maxFaults |-> 0, lens |-> NoLists,
           runner |-> "src"]

InitCap ==
    /\ InitLocals
    /\ MainOff
    /\ MotwOff
    /\ AuthOff
    /\ reachable = TRUE
    /\ env = CapEnv
    /\ entry \in {"copy_appdata_subdirs", "reg_export"}
    /\ dpc = "start"
    /\ \E n \in (PoolCap + 1)..(PoolCap + ExtraTasks) :
        \/ entry = "copy_appdata_subdirs" /\ call = AppDataCall(n, FALSE, None)
        \/ entry = "reg_export" /\ call = RegCall(n, DestRoot, FALSE, FALSE, PyNone)
    /\ pc = [t \in Slots |-> "none"]
    /\ rargs = [t \in Slots |-> NoArgs]

NextCap ==
    \/ \E t \in Slots : Collect(t)
    \/ \E t \in Slots : RunnerWait(t)
    \/ Submit
    \/ DispatchReturn
    \/ CreatePool
    \/ PrepareRegExport
    \/ \E t \in Slots : RunnerStart(t)
    \/ \E t \in Slots : TaskBegin(t)

\* Threads are scheduled and, by the claim's proviso, every subprocess exits:
\* a step that stays possible is eventually taken.
SpecCap == InitCap /\ [][NextCap]_vars /\ WF_vars(NextCap)

\* main is started with a command line; the names and the answers to its
\* prompts are drawn when it asks for them.
\* Under main the subprocesses print nothing; they exit with any of the
\* tools' codes and one call of a stage may raise.
MainEnv(runner) ==
    [codes |-> ToolExitCodes, maxLines |-> 0, maxFaults |-> 1,
     lens |-> [st \in DispatchStages |-> 0..MaxMainTasks], runner |-> runner]

InitMain ==
    /\ InitLocals
    /\ env \in {MainEnv(r) : r \in Runners}
    /\ entry = "main"
    /\ call = NoCall
    /\ dpc = "idle"
    /\ pc = [t \in Slots |-> "none"]
    /\ rargs = [t \in Slots |-> NoArgs]
    /\ mpc = "start"
    /\ args \in [dryrun : BOOLEAN, destination : {PyNone, DestRoot}]
    /\ destination = (IF TruthyStr(args.destination) THEN args.destination ELSE TypedDest)
    /\ stages = <<>>
    /\ status = -1
    /\ asked = <<>>
    /\ AuthOff
    /\ reachable \in BOOLEAN
    /\ MotwIdle(OneShortcut(destination), <<TRUE>>)

NextMain ==
    \/ MainStart
    \/ MainGate
    \/ MainAfterAuth
    \/ AuthLaunch
    \/ AuthPoll
    \/ ExplorerExits
    \/ AccessChanges
    \/ MainEnsureDirectory
    \/ MainConfirm
    \/ MainRootCopy
    \/ \E st \in {"local", "roaming"} : MainAppData(st)
    \/ MainStageReturn
    \/ MainStageRaised
    \/ MainMotw
    \/ MotwStart
    \/ MotwVisit
    \/ MotwFinish
    \/ MainMotwReturn
    \/ MainProgramFiles
    \/ MainRegistry
    \/ MainFinal
    \/ \E t \in Slots : Collect(t)
    \/ \E t \in Slots : RunnerWait(t)
    \/ \E t \in Slots : RunnerFault(t)
    \/ Submit
    \/ DispatchReturn
    \/ CreatePool
    \/ PrepareRegExport
    \/ \E t \in Slots : RunnerStart(t)
    \/ \E t \in Slots : TaskBegin(t)

SpecMain == InitMain /\ [][NextMain]_vars

\* A real run of main, with the robocopy_runner it is written against, over
\* a reachable share; the configuration lists ScenarioTasks local AppData
\* subfolders and one item for every other dispatch stage; the tools exit
\* with any of their codes and nothing raises.
ScenarioEnv ==
    [codes |-> ToolExitCodes, maxLines |-> 0, maxFaults |-> 0,
     lens |-> [st \in DispatchStages |-> IF st = "local" THEN {ScenarioTasks} ELSE {1}],
     runner |-> "imported"]

InitScenario ==
    /\ InitLocals
    /\ env = ScenarioEnv
    /\ entry = "main"
    /\ call = NoCall
    /\ dpc = "idle"
    /\ pc = [t \in Slots |-> "none"]
    /\ rargs = [t \in Slots |-> NoArgs]
    /\ mpc = "start"
    /\ args = [dryrun |-> FALSE, destination |-> DestRoot]
    /\ destination = args.destination
    /\ stages = <<>>
    /\ status = -1
    /\ asked = <<>>
    /\ AuthOff
    /\ reachable = TRUE
    /\ MotwIdle(OneShortcut(destination), <<TRUE>>)

NextScenario ==
    \/ MainStart
    \/ MainGate
    \/ MainEnsureDirectory
    \/ MainConfirm
    \/ MainRootCopy
    \/ \E st \in {"local", "roaming"} : MainAppData(st)
    \/ MainStageReturn
    \/ MainMotw
    \/ MotwStart
    \/ MotwVisit
    \/ MotwFinish
    \/ MainMotwReturn
    \/ MainProgramFiles
    \/ MainRegistry
    \/ MainFinal
    \/ \E t \in Slots : Collect(t)
    \/ \E t \in Slots : RunnerWait(t)
    \/ Submit
    \/ DispatchReturn
    \/ CreatePool
    \/ PrepareRegExport
    \/ \E t \in Slots : RunnerStart(t)
    \/ \E t \in Slots : TaskBegin(t)

SpecScenario == InitScenario /\ [][NextScenario]_vars

\* remove_mark_of_the_web_from_shortcuts is called on a folder, and then
\* again on the same folder: files at three depths, shortcuts and others,
\* each shortcut marked or not, the filesystem answering for each
\* marked shortcut's stream in one of the ways of StreamKinds; of the other
\* files the one in the folder itself is marked.
ScanNames == <<File("", <<"Site", ".URL">>, "plain"),
               File("", <<"notes", ".lnk", ".txt">>, "plain"),
               File("Tools", <<"App", ".lnk">>, "plain"),
               File("Tools", <<"url">>, "plain"),
               File("Tools\\Old", <<"Old", ".Url">>, "plain")>>

ScanFolders ==
    {Folder(PathJoin(DestRoot, "Desktop"), FALSE, <<>>)} \cup
    {Folder(PathJoin(DestRoot, "Desktop"), TRUE,
            [i \in 1..Len(ScanNames) |->
                IF IsShortcut(ScanNames[i].name)
                THEN [ScanNames[i] EXCEPT !.fs = k[i]] ELSE ScanNames[i]]) :
        k \in [1..Len(ScanNames) -> StreamKinds]}

InitScan ==
    /\ InitLocals
    /\ MainOff
    /\ AuthOff
    /\ reachable = TRUE
    /\ env = FullEnv
    /\ entry = "remove_mark_of_the_web_from_shortcuts"
    /\ dpc = "idle"
    /\ call = NoCall
    /\ pc = [t \in Slots |-> "none"]
    /\ rargs = [t \in Slots |-> NoArgs]
    /\ desktop \in ScanFolders
    /\ marker \in {m \in [1..Len(desktop.files) -> BOOLEAN] :
                     \A i \in 1..Len(desktop.files) :
                         /\ ~IsShortcut(desktop.files[i].name) => (m[i] <=> desktop.files[i].dir = "")
                         /\ ~m[i] => desktop.files[i].fs = "plain"}
    /\ spc = "start"
    /\ cursor = 0
    /\ reports = <<>>

NextScan ==
    \/ MotwStart
    \/ MotwVisit
    \/ MotwFinish
    \/ MotwAgain

SpecScan == InitScan /\ [][NextScan]_vars

\* ================================================================ claims
Dispatchers == {"copy_appdata_subdirs", "reg_export"}
Finished(t) == pc[t] \in {"done", "collected"}
Who(i) == Identity(call.fn, call.items[i])
HasLine(t, msgs) == \E k \in 1..Len(tlog[t]) : tlog[t][k].msg \in msgs
CountLines(t, msgs) == Cardinality({k \in 1..Len(tlog[t]) : tlog[t][k].msg \in msgs})
TaskStartMsgs == {"[Thread] Creating AppData subfolder:",
                  "[Thread] Skipping folder creation (dry run):", "Exporting"}
DryRunMsgs == {"[Dry Run] Command not executed.", "[Dry Run] Command: (not executed)."}
\* The pool was created: for reg_export, the helper check has passed.
Dispatched == call.fn \in Dispatchers /\ workers > 0
FaultedTask(t) == \E site \in {"makedirs", "Popen", "stream"} : <<site, t>> \in faults

\* C1: when a dispatcher that was given a non-empty task list returns, every
\* input task has been started exactly once and exactly one completion record
\* has been collected for it, under its own identity and with its own outcome
\* ("Finished" with the exit code its runner returned, or "Error").
C1_OneRecordPerTask ==
    (dpc = "returned" /\ Dispatched /\ N > 0) =>
        \A i \in 1..N :
            /\ pc[i] = "collected"
            /\ CountLines(i, TaskStartMsgs) = 1
            /\ Len(records[Who(i)]) = 1
            /\ records[Who(i)][1].who = Who(i)
            /\ records[Who(i)][1].msg = (IF result[i].kind = "ret" THEN "Finished" ELSE "Error")
            /\ result[i].kind = "ret" => records[Who(i)][1].code = result[i].code

\* C1 witness: a returned dispatch of two or more tasks whose records differ:
\* one task raised and another finished with exit code 8.
C1_Witness ==
    /\ dpc = "returned" /\ Dispatched /\ N >= 2
    /\ \E i, j \in 1..N :
         /\ records[Who(i)] = <<[who |-> Who(i), msg |-> "Error", code |-> 0]>>
         /\ records[Who(j)] = <<[who |-> Who(j), msg |-> "Finished", code |-> 8]>>

\* C2: once a task of a dispatch has faulted, no exception leaves the
\* dispatcher and the dispatch never gets stuck; when it returns, every task
\* that did not fault has its own record with the exit code its tool gave,
\* and every faulted task has a failure record ("Error", or "Finished" with
\* the sentinel -1).
C2_FaultIsolated ==
    (Dispatched /\ \E t \in 1..N : FaultedTask(t)) =>
        /\ dpc # "raised"
        /\ dpc # "returned" => ENABLED Next
        /\ dpc = "returned" =>
             \A i \in 1..N :
                IF FaultedTask(i)
                THEN records[Who(i)] \in
                        {<<[who |-> Who(i), msg |-> "Error", code |-> 0]>>,
                         <<[who |-> Who(i), msg |-> "Finished", code |-> FaultCode]>>}
                ELSE /\ result[i].kind = "ret"
                     /\ result[i].code \in (IF call.dry_run THEN {0} ELSE env.codes)
                     /\ records[Who(i)] =
                          <<[who |-> Who(i), msg |-> "Finished", code |-> result[i].code]>>

\* C2 witness: a returned dispatch in which exactly one task faulted and a
\* sibling finished with the tool's exit code 8.
C2_Witness ==
    /\ dpc = "returned" /\ Dispatched
    /\ Cardinality({t \in 1..N : FaultedTask(t)}) = 1
    /\ \E j \in 1..N : ~FaultedTask(j) /\ result[j] = Ret(8)

\* C3: in a dispatch of n tasks in which every invocation terminates, at
\* most min(6, n) tool invocations are in progress at any moment, and
\* eventually the dispatcher has returned with the results of all n tasks
\* collected, one record each.
C3_CappedAndAllCollected ==
    /\ [](Cardinality(Invoking) <= (IF PoolCap < N THEN PoolCap ELSE N))
    /\ <>(/\ dpc = "returned"
          /\ \A i \in 1..N : pc[i] = "collected" /\ Len(records[Who(i)]) = 1)

\* C3 witness: six invocations are in progress while a seventh task waits in
\* the queue.
C3_Witness ==
    /\ Cardinality(Invoking) = PoolCap
    /\ \E t \in 1..N : pc[t] = "queued"

\* C4 (as claimed): a dispatcher given an empty task list, with nothing
\* raised by the environment, never raises, and once its pool exists the pool
\* has at least one worker and no task has run.
C4_EmptyListReturns ==
    (call.fn \in Dispatchers /\ N = 0 /\ faults = {}) =>
        /\ dpc # "raised"
        /\ dpc \in {"submit", "collect"} => workers >= 1
        /\ \A t \in Slots : pc[t] = "none"

\* C5: a runner called with dry_run returns 0, starts no subprocess and logs
\* the command it assembled together with a "[Dry Run]" line; a runner called
\* without dry_run never logs a "[Dry Run]" line.
C5_DryRunShortCircuit ==
    \A t \in Slots :
        rargs[t].tool # "none" =>
            /\ rargs[t].dry_run => launched[t] = 0
            /\ (rargs[t].dry_run /\ Finished(t)) =>
                  /\ result[t] = Ret(0)
                  /\ HasLine(t, DryRunMsgs)
                  /\ \E k \in 1..Len(tlog[t]) :
                        tlog[t][k].arg = (IF rargs[t].tool = "robocopy"
                                          THEN JoinSp(RobocopyCmd(rargs[t]))
                                          ELSE RegCmd(rargs[t]))
            /\ ~rargs[t].dry_run => ~HasLine(t, DryRunMsgs)

\* C5 witness: run_regexport, called on its own with dry_run, has returned.
C5_Witness ==
    /\ entry = "run_regexport" /\ rargs[1].dry_run /\ pc[1] = "done"

\* C6 (as claimed): while a call made with dry_run set is running or has
\* returned, no directory has been created.
C6_DryRunCreatesNothing ==
    (call.fn \in Dispatchers \cup {"ensure_directory"} /\ call.dry_run) => dirs = {}

\* C7 (as claimed): in main, every stage call made so far (root copy, local
\* and roaming AppData dispatch, program-files dispatch, registry-export
\* dispatch) runs under a dry_run equal to --dryrun, and so does every
\* runner call of the stage in progress.
FlaggedStages == {"root", "local", "roaming", "prog", "reg"}

RunnerFaulted(t) == <<"Popen", t>> \in faults \/ <<"stream", t>> \in faults

C8_RunnerCatchesFaults ==
    \A t \in Slots :
        (rargs[t].tool # "none" /\ Finished(t)) =>
            /\ result[t].kind = "ret"
            /\ RunnerFaulted(t) <=> result[t].code = FaultCode

\* C8 witness: a runner call in which launching the tool raised has returned.
C8_Witness ==
    \E t \in Slots : <<"Popen", t>> \in faults /\ Finished(t) /\ rargs[t].tool = "reg"

\* C9: a runner call without dry_run in which nothing raised has started
\* exactly one subprocess, has read every output line before its exit code
\* was taken, and returns the exit code wait() gave (the one its last log
\* line reports), zero or not.
C9_OneProcessDrainedThenCode ==
    \A t \in Slots :
        (rargs[t].tool # "none" /\ ~rargs[t].dry_run) =>
            /\ pc[t] = "invoking" => launched[t] = 1
            /\ (Finished(t) /\ ~RunnerFaulted(t)) =>
                  /\ launched[t] = 1
                  /\ outLeft[t] = 0
                  /\ result[t].kind = "ret"
                  /\ result[t].code \in env.codes
                  /\ tlog[t][Len(tlog[t])] = ExitLine(rargs[t], result[t].code)

\* C9 witness: a real runner call that read an output line and returned 8.
C9_Witness ==
    \E t \in Slots :
        /\ Finished(t) /\ result[t] = Ret(8) /\ ~rargs[t].dry_run
        /\ HasLine(t, {"", "Output for"})

\* C10: the command run_robocopy logs is, in order: "robocopy", the source
\* in double quotes, the destination in double quotes, the options, then
\* "/XD" and the quoted directory exclusions exactly when there are any, then
\* "/XF" and the quoted file exclusions exactly when there are any.
ClaimedQuoted(p) == "\"" \o p \o "\""
ClaimedSwitch(sw, x) ==
    IF ~x.none /\ Len(x.items) > 0
    THEN <<sw>> \o [i \in 1..Len(x.items) |-> ClaimedQuoted(x.items[i])]
    ELSE <<>>
ClaimedCommand(a) ==
    <<"robocopy", ClaimedQuoted(a.source), ClaimedQuoted(a.destination)>>
      \o a.options
      \o (IF a.additional.none THEN <<>> ELSE a.additional.items)
      \o ClaimedSwitch("/XD", a.exclude_dirs)
      \o ClaimedSwitch("/XF", a.exclude_files)

C10_CommandLayout ==
    \A t \in Slots :
        (rargs[t].tool = "robocopy" /\ pc[t] \in {"invoking", "done", "collected"}) =>
            LET a == rargs[t]
                cmd == RobocopyCmd(a)
                has(sw) == \E k \in 1..Len(cmd) : cmd[k] = sw
            IN /\ cmd = ClaimedCommand(a)
               /\ tlog[t][IF entry = "run_robocopy" THEN 1 ELSE 2].arg = JoinSp(ClaimedCommand(a))
               /\ has("/XD") <=> (~a.exclude_dirs.none /\ a.exclude_dirs.items # <<>>)
               /\ has("/XF") <=> (~a.exclude_files.none /\ a.exclude_files.items # <<>>)

\* C10 witness: run_robocopy has logged a command built from two directory
\* exclusions (one with a space) and an empty, non-None file-exclusion list.
C10_Witness ==
    /\ entry = "run_robocopy" /\ pc[1] = "done"
    /\ rargs[1].exclude_dirs = Some(<<"Temp", "My Docs">>)
    /\ rargs[1].exclude_files = Some(<<>>)

\* C11: once Explorer has been started, prompt_user_to_authenticate polls
\* whether the target path exists: it returns True as soon as the path is
\* reachable and False when the timeout elapses with the path unreachable,
\* so the value it returns says whether the path is reachable at that time.
C11_ReturnsWhetherReachable ==
    (entry = "prompt_user_to_authenticate" /\ apc = "returned" /\ proc # "failed") =>
        (success <=> reachable)

\* C12: when subprocess.Popen raises, prompt_user_to_authenticate returns
\* False at once: Popen was called exactly once, the polling loop made no
\* pass and no second was waited.
C12_LaunchFailureReturnsAtOnce ==
    proc = "failed" =>
        /\ apc = "returned"
        /\ ~success
        /\ launches = 1
        /\ polls = 0
        /\ elapsed = 0

\* C12 witness: a call on its own whose Popen raised and which has returned.
C12_Witness ==
    /\ entry = "prompt_user_to_authenticate"
    /\ proc = "failed"
    /\ apc = "returned"

Printed(msg) == \E k \in 1..Len(dlog) : dlog[k].msg = msg

\* C13: when main finds the endpoint unreachable and Explorer cannot be
\* started, main aborts with exit status 1 and no stage runs: no directory
\* is created, no confirmation is asked, no stage is called and no
\* subprocess is started.
C13_LaunchFailureAborts ==
    (entry = "main" /\ Printed("Failed to launch Explorer")) =>
        /\ mpc \in {"auth", "exited"}
        /\ mpc = "exited" => status = 1
        /\ dirs = {}
        /\ asked = <<>>
        /\ stages = <<>>
        /\ dpc = "idle"
        /\ \A t \in Slots : pc[t] = "none" /\ launched[t] = 0

\* C13 witness: main has exited with status 1 after Popen raised.
C13_Witness ==
    /\ entry = "main"
    /\ proc = "failed"
    /\ mpc = "exited"
    /\ status = 1

ClaimedStageOrder == <<"root copy", "local-AppData dispatch", "roaming-AppData dispatch",
                       "shortcut post-processing", "program-files dispatch",
                       "registry-export dispatch">>
ClaimedStageName(st) ==
    CASE st = "root" -> "root copy"
      [] st = "local" -> "local-AppData dispatch"
      [] st = "roaming" -> "roaming-AppData dispatch"
      [] st = "motw" -> "shortcut post-processing"
      [] st = "prog" -> "program-files dispatch"
      [] st = "reg" -> "registry-export dispatch"
ClaimedPosition(st) ==
    CHOOSE k \in 1..Len(ClaimedStageOrder) : ClaimedStageOrder[k] = ClaimedStageName(st)

ClaimedYes(answer) == answer \in {"y", "yes", "Y", "YES", "Yes"}
OptionalPrompt(st) ==
    IF st = "prog" THEN "Copy Program Files directories? (y/n)"
    ELSE "Export local registry entries? (y/n)"
Answers(st) == {k \in 1..Len(asked) : asked[k].prompt = OptionalPrompt(st)}
Ran(st) == \E i \in 1..Len(stages) : stages[i].stage = st

LocalStageReturned ==
    /\ entry = "main"
    /\ call.fn = "copy_appdata_subdirs"
    /\ stages # <<>>
    /\ stages[Len(stages)].stage = "local"
    /\ dpc = "returned"
OneOfThemFailed ==
    \E i \in 1..N :
        /\ result[i] = Ret(8)
        /\ \A j \in 1..N : j # i => result[j] = Ret(0)
RecordedCodes(c) == {i \in 1..N : records[Who(i)] # <<>> /\ records[Who(i)][1].code = c}

RootCopyOver ==
    /\ entry = "main"
    /\ \/ mpc = "local"
       \/ mpc = "crashed" /\ stages = <<>>
Follows(cmd, sw, words) ==
    \E k \in 1..Len(cmd) :
        /\ cmd[k] = sw
        /\ k + Len(words) <= Len(cmd)
        /\ \A i \in 1..Len(words) : cmd[k + i] = "\"" \o words[i] \o "\""

\* C17: whenever main has run its root-copy statement, exactly one
\* run_robocopy call was made for the profile root, and its command excludes
\* the AppData directory after /XD and every configured excluded file after
\* /XF.
C17_RootCopyExcludes ==
    RootCopyOver =>
        /\ {t \in Slots : rargs[t].tool = "robocopy"} = {1}
        /\ pc[1] = "done"
        /\ rargs[1].source = build_unc_source(RemoteMachine, USER_PROFILE_SUBPATH, UserName)
        /\ Follows(RobocopyCmd(rargs[1]), "/XD", <<"AppData">>)
        /\ Follows(RobocopyCmd(rargs[1]), "/XF", ROBOCOPY_EXCLUDE_FILES)

OverrideGiven == call.psexec_custom_path # PyNone /\ call.psexec_custom_path # ""
OverrideInvalid == OverrideGiven /\ <<call.psexec_custom_path, FALSE>> \in probed
SearchFailed ==
    /\ ~OverrideGiven
    /\ <<"PsExec.exe", FALSE>> \in probed
    /\ <<"PATH\\PsExec.exe", FALSE>> \in probed
HelperNotLocated ==
    /\ call.fn = "reg_export"
    /\ call.use_psexec
    /\ OverrideInvalid \/ SearchFailed
CriticalLines ==
    {k \in 1..Len(dlog) :
        dlog[k].msg \in {"PsExec executable not found at specified custom path:",
                         "PsExec.exe not found in system PATH or current directory."}}

\* C18: when reg_export is to use PsExec and PsExec cannot be located (no
\* override and neither the current directory nor PATH has it, or an
\* override that is not an existing file), the call logs one critical line
\* and returns normally: it creates no directory, starts no pool and no
\* task, and after an invalid override it has not searched the current
\* directory or PATH.
C18_HelperMissingAbortsStage ==
    HelperNotLocated =>
        /\ dpc = "returned"
        /\ Cardinality(CriticalLines) = 1
        /\ dirs = {}
        /\ psexec = PyNone
        /\ workers = 0
        /\ nsub = 0
        /\ records = <<>>
        /\ \A t \in Slots : pc[t] = "none" /\ launched[t] = 0 /\ tlog[t] = <<>>
        /\ OverrideInvalid => probed = {<<call.psexec_custom_path, FALSE>>}

\* C18 witness: reg_export was called on its own with an override path
\* that is not a file and a non-empty key list, and has returned.
C18_Witness ==
    /\ entry = "reg_export"
    /\ HelperNotLocated
    /\ OverrideInvalid
    /\ N > 0
    /\ dpc = "returned"

RECURSIVE ClaimedBody(_)
ClaimedBody(k) ==
    IF k = <<>> THEN ""
    ELSE (IF Head(k) \in {"\\", "/", ":", " "} THEN "_" ELSE Head(k)) \o ClaimedBody(Tail(k))
ClaimedFileName(k) ==
    ClaimedBody(IF k # <<>> /\ Head(k) = "HKEY_" THEN Tail(k) ELSE k) \o ".reg"
RegTasks == {t \in 1..N : call.fn = "reg_export" /\ rargs[t].tool = "reg"}

\* C19: the file name reg_export derives from a key path is a function of
\* the key path alone: the HKEY_ prefix is stripped and every backslash,
\* slash, colon and space becomes an underscore, so that
\* HKEY_CURRENT_USER\Software\Test is exported to
\* CURRENT_USER_Software_Test.reg, and the same key path gets the same file
\* name in every call.
C19_FileNameOfKey ==
    \A t \in RegTasks :
        /\ rargs[t].destination =
              PathJoin(call.dst_directory, ClaimedFileName(call.items[t]))
        /\ rargs[t].source = "HKEY_CURRENT_USER\\Software\\Test" =>
              rargs[t].destination =
                 PathJoin(call.dst_directory, "CURRENT_USER_Software_Test.reg")
        /\ rargs[t].source = "HKEY_CURRENT_USER\\Software\\My App:1/x" =>
              rargs[t].destination =
                 PathJoin(call.dst_directory, "CURRENT_USER_Software_My_App_1_x.reg")
        /\ \A u \in RegTasks :
              rargs[u].source = rargs[t].source => rargs[u].destination = rargs[t].destination

\* C19 witness: a reg_export call has started the export of the example
\* key and of a key whose name holds a space, a colon and a slash.
C19_Witness ==
    /\ entry = "reg_export"
    /\ \E t, u \in RegTasks :
          /\ rargs[t].source = "HKEY_CURRENT_USER\\Software\\Test"
          /\ rargs[u].source = "HKEY_CURRENT_USER\\Software\\My App:1/x"

\* C20: any two distinct key paths of the list given to reg_export are
\* exported to distinct files.
C20_DistinctKeysDistinctFiles ==
    \A t, u \in RegTasks :
        call.items[t] # call.items[u] => rargs[t].destination # rargs[u].destination

\* ------------------------------------------------------------------ C21
\* constants.py, lines 47-53: the roaming AppData allowlist, each entry as
\* the list of its path components.
APPDATA_ROAMING_INCLUDE_DIRS ==
    << <<"AppData", "Roaming", "Mozilla">>,
       <<"AppData", "Roaming", "OpenILS">>,
       <<"AppData", "Roaming", "Microsoft", "Windows", "Recent">>,
       <<"AppData", "Roaming", "Microsoft", "Windows", "Recent", "AutomaticDestinations">>,
       <<"AppData", "Roaming", "Microsoft", "Windows", "Recent", "CustomDestinations">> >>

\* The relative path an entry is written as.
RECURSIVE JoinComponents(_)
JoinComponents(c) ==
    IF Len(c) = 1 THEN c[1] ELSE c[1] \o "\\" \o JoinComponents(Tail(c))

\* copy_appdata_subdirs is called with that list, as main's roaming stage
\* calls it; the tools exit with any of their codes and nothing raises.
RoamingCall(dry) ==
    [fn |-> "copy_appdata_subdirs",
     items |-> [i \in 1..Len(APPDATA_ROAMING_INCLUDE_DIRS) |->
                   JoinComponents(APPDATA_ROAMING_INCLUDE_DIRS[i])],
     dry_run |-> dry, source_root |-> SourceRoot, dest_root |-> DestRoot,
     exclude_dirs |-> None]

RoamingEnv == [codes |-> ToolExitCodes, maxLines |-> 0, maxFaults |-> 0,
               lens |-> NoLists, runner |-> "src"]

InitRoaming ==
    /\ InitLocals
    /\ MainOff
    /\ MotwOff
    /\ AuthOff
    /\ reachable = TRUE
    /\ env = RoamingEnv
    /\ entry = "copy_appdata_subdirs"
    /\ dpc = "start"
    /\ call \in {RoamingCall(dry) : dry \in BOOLEAN}
    /\ pc = [t \in Slots |-> "none"]
    /\ rargs = [t \in Slots |-> NoArgs]

NextRoaming ==
    \/ \E t \in Slots : Collect(t)
    \/ \E t \in Slots : RunnerWait(t)
    \/ Submit
    \/ DispatchReturn
    \/ CreatePool
    \/ \E t \in Slots : RunnerStart(t)
    \/ \E t \in Slots : TaskBegin(t)

SpecRoaming == InitRoaming /\ [][NextRoaming]_vars

\* The components of a subfolder of the allowlist.
ComponentsOf(item) ==
    LET k == CHOOSE i \in 1..Len(APPDATA_ROAMING_INCLUDE_DIRS) :
                 JoinComponents(APPDATA_ROAMING_INCLUDE_DIRS[i]) = item
    IN APPDATA_ROAMING_INCLUDE_DIRS[k]
\* Folder a lies inside folder b, or is b.
Inside(a, b) == Len(b) <= Len(a) /\ SubSeq(a, 1, Len(b)) = b

\* C21 (as claimed): within one dispatch no two tasks running at the same
\* time write the same destination path: the destination subtrees of two
\* tasks of an AppData dispatch are disjoint (neither subfolder path is a
\* prefix of the other), and the output files of two tasks of a registry
\* dispatch differ.
C21_DisjointDestinations ==
    \A t, u \in Slots :
        (t # u /\ t \in Running /\ u \in Running /\ ~call.dry_run) =>
            IF call.fn = "reg_export"
            THEN rargs[t].destination # rargs[u].destination
            ELSE /\ rargs[t].destination # rargs[u].destination
                 /\ ~Inside(ComponentsOf(call.items[t]), ComponentsOf(call.items[u]))

\* ------------------------------------------------------------------ C22
ScanFiles == 1..Len(desktop.files)
PathOfFile(i) == file_path(desktop.path, desktop.files[i])
NameOfFile(i) == Flatten(desktop.files[i].name)
\* The k-th call of the scan has logged msg about arg.
Reported(k, msg, arg) ==
    /\ k <= Len(reports)
    /\ \E j \in 1..Len(reports[k]) : reports[k][j] = L(msg, arg)
SuccessMessages == {"Successfully removed MotW from (via os.remove)",
                    "Successfully removed MotW from (via del command)"}
RemovalMessages == SuccessMessages \cup ErrorMessages \cup
                   {"os.remove failed; trying 'del' command for", "No Mark of the Web found for",
                    "No Mark of the Web found for (confirmed by del command)"}
\* The k-th call removed the marker of file i / tried to / has been at file i.
RemovedIn(k, i) == \E m \in SuccessMessages : Reported(k, m, PathOfFile(i))
AttemptedIn(k, i) ==
    \/ Reported(k, "Processing shortcut with MotW:", NameOfFile(i))
    \/ \E m \in RemovalMessages : Reported(k, m, PathOfFile(i))
VisitedIn(k, i) ==
    \/ Len(reports) > k
    \/ Len(reports) = k /\ (spc \in {"returned", "start"} \/ (spc = "walking" /\ cursor > i))

\* C22: when the scan runs a second time on the same directory, every file
\* whose marker the first pass removed is reported as having no marker and
\* no removal is attempted for it, and the second pass leaves every file's
\* marker as the first pass left it.
C22_SecondPassIdempotent ==
    /\ [](\A i \in ScanFiles :
            (RemovedIn(1, i) /\ VisitedIn(2, i)) =>
                /\ Reported(2, "Skipping (no MotW):", NameOfFile(i))
                /\ ~AttemptedIn(2, i))
    /\ [][Len(reports) >= 2 => marker' = marker]_vars

C22_Witness ==
    /\ Len(reports) = 2 /\ spc = "returned"
    /\ \E i, j \in ScanFiles :
          /\ RemovedIn(1, i) /\ Reported(1, "Successfully removed MotW from (via del command)", PathOfFile(i))
          /\ Reported(1, "Failed to remove MotW from", PathOfFile(j)) /\ marker[j]

\* ------------------------------------------------------------------ C23
\* The file's extension is .url or .lnk in some letter case.
ClaimedMatch(i) ==
    LET n == desktop.files[i].name
    IN Len(n) > 1 /\ n[Len(n)] \in {".url", ".URL", ".Url", ".lnk", ".LNK", ".Lnk"}
\* The k-th call tested the marker of file i.
TestedIn(k, i) ==
    \/ Reported(k, "Processing shortcut with MotW:", NameOfFile(i))
    \/ Reported(k, "Skipping (no MotW):", NameOfFile(i))

\* C23: the scan reaches every file at every depth; it tests the marker of
\* a file exactly when the file's extension is .url or .lnk in any letter
\* case, it never changes the marker of another file, and a file whose
\* removal it reports as successful has no marker.
C23_OnlyShortcutsEveryDepth ==
    /\ [](\A i \in ScanFiles :
            /\ (VisitedIn(1, i) /\ ClaimedMatch(i)) => TestedIn(1, i)
            /\ ~ClaimedMatch(i) => (~TestedIn(1, i) /\ ~AttemptedIn(1, i))
            /\ RemovedIn(1, i) => ~marker[i])
    /\ [][\A i \in ScanFiles : ~ClaimedMatch(i) => marker'[i] = marker[i]]_vars

C23_Witness ==
    /\ Len(reports) = 1 /\ spc = "returned"
    /\ \E i, j, k \in ScanFiles :
          /\ desktop.files[i].dir = "Tools\\Old" /\ RemovedIn(1, i)
          /\ desktop.files[j].dir = "" /\ splitext(desktop.files[j].name) = ".URL"
          /\ RemovedIn(1, j)
          /\ ~ClaimedMatch(k) /\ marker[k]

\* ------------------------------------------------------------------ C24
\* Neither os.remove nor the fallback can delete the stream of file i.
CannotRemove(i) == ClaimedMatch(i) /\ desktop.files[i].fs \in {"stuck", "nocmd"}
FailedIn(k, i) == \E m \in ErrorMessages : Reported(k, m, PathOfFile(i))
ProcessedIn(k, i) == Reported(k, "Processing shortcut with MotW:", NameOfFile(i))

FirstCallReturned == Len(reports) > 1 \/ (Len(reports) = 1 /\ spc \in {"returned", "start"})

\* C24: when the removal for a file fails (os.remove fails and the fallback
\* exits non-zero or raises), an error is logged for that file and the scan
\* goes on: it can always take its next step, and when it returns every
\* file with a shortcut extension has been tested and, if it is marked,
\* processed.
C24_FailureLoggedScanContinues ==
    /\ \A i \in ScanFiles :
          (CannotRemove(i) /\ ProcessedIn(1, i)) =>
              /\ FailedIn(1, i)
              /\ desktop.files[i].fs = "stuck" =>
                    Reported(1, "Failed to remove MotW from", PathOfFile(i))
              /\ desktop.files[i].fs = "nocmd" =>
                    Reported(1, "Subprocess error for", PathOfFile(i))
    /\ (\E i \in ScanFiles : FailedIn(1, i)) =>
          /\ (Len(reports) = 1 /\ spc = "walking") => ENABLED (MotwVisit \/ MotwFinish)
          /\ FirstCallReturned =>
                /\ Reported(1, "Finished Mark of the Web removal for:", desktop.path)
                /\ \A j \in ScanFiles : ClaimedMatch(j) =>
                      /\ TestedIn(1, j)
                      /\ (marker[j] /\ desktop.files[j].fs # "unreadable") => ProcessedIn(1, j)

C24_Witness ==
    /\ Len(reports) = 1 /\ spc = "returned"
    /\ \E i, j, k \in ScanFiles :
          /\ i < j /\ j < k
          /\ desktop.files[i].fs = "stuck" /\ FailedIn(1, i)
          /\ desktop.files[j].fs = "nocmd" /\ FailedIn(1, j)
          /\ RemovedIn(1, k)

\* ------------------------------------------------------------------ C25
\* The directory the task for the t-th subfolder works on.
TaskDestination(t) == PathJoin(call.dest_root, call.items[t])

\* C25: in an AppData dispatch that is not a dry run, the destination
\* directory of a task (the destination root joined with the task's
\* subfolder) exists before the task's copy tool is started, and the copy
\* tool is started exactly once per subfolder, with that directory as its
\* destination.
C25_DirectoryBeforeCopy ==
    (call.fn = "copy_appdata_subdirs" /\ ~call.dry_run) =>
        \A t \in 1..N :
            /\ launched[t] <= 1
            /\ launched[t] = 1 =>
                  /\ TaskDestination(t) \in dirs
                  /\ rargs[t].tool = "robocopy"
                  /\ rargs[t].destination = TaskDestination(t)
                  /\ rargs[t].source = PathJoin(call.source_root, call.items[t])
            /\ pc[t] = "invoking" => launched[t] = 1
            /\ Finished(t) => launched[t] = 1
            /\ \A u \in 1..N : (u # t /\ launched[t] = 1 /\ launched[u] = 1) =>
                  rargs[u].destination # rargs[t].destination

C25_Witness ==
    /\ call.fn = "copy_appdata_subdirs" /\ ~call.dry_run
    /\ dpc = "returned"
    /\ \A t \in 1..N : launched[t] = 1
    /\ Cardinality(dirs) = N

\* ------------------------------------------------------------------ C26
PassedConfirmation ==
    \E k \in 1..Len(asked) :
        asked[k].prompt = "Proceed with sync? (y/n)" /\ ClaimedYes(asked[k].answer)
ConfirmedStage(st) == \E k \in Answers(st) : ClaimedYes(asked[k].answer)

\* C26 (as claimed): whatever the tasks' exit codes and faults, a run that
\* has passed the access gate and the initial confirmation never crashes
\* and never ends early: when it ends, it ends by the final exit with
\* status 0, having attempted the root copy, both AppData dispatches, the
\* shortcut post-processing and every optional stage that was confirmed.
C26_RunEndsWithStatusZero ==
    (entry = "main" /\ PassedConfirmation) =>
        /\ mpc # "crashed"
        /\ mpc = "exited" =>
              /\ status = 0
              /\ \A st \in {"root", "local", "roaming", "motw"} : Ran(st)
              /\ \A st \in {"prog", "reg"} : ConfirmedStage(st) => Ran(st)

\* ------------------------------------------------------------------ C27
\* A run of main, real or dry, with the robocopy_runner it is written
\* against, over a reachable share and into a destination whose Desktop
\* folder holds shortcuts already; every configured list has
\* MaxMainTasks + 1 entries, the tools exit 0 and nothing raises.
PostEnv ==
    [codes |-> {0}, maxLines |-> 0, maxFaults |-> 0,
     lens |-> [st \in DispatchStages |-> {MaxMainTasks + 1}], runner |-> "imported"]

TwoShortcuts(dest) ==
    Folder(PathJoin(dest, "Desktop"), TRUE,
           <<File("", <<"Site", ".url">>, "plain"), File("Tools", <<"App", ".lnk">>, "del")>>)

InitPost ==
    /\ InitLocals
    /\ env = PostEnv
    /\ entry = "main"
    /\ call = NoCall
    /\ dpc = "idle"
    /\ pc = [t \in Slots |-> "none"]
    /\ rargs = [t \in Slots |-> NoArgs]
    /\ mpc = "start"
    /\ args \in [dryrun : BOOLEAN, destination : {DestRoot}]
    /\ destination = args.destination
    /\ stages = <<>>
    /\ status = -1
    /\ asked = <<>>
    /\ AuthOff
    /\ reachable = TRUE
    /\ \E m \in [1..2 -> BOOLEAN] : MotwIdle(TwoShortcuts(destination), m)

SpecPost == InitPost /\ [][NextScenario]_vars

Unfinished == {t \in Slots : pc[t] \in {"queued", "calling", "invoking"}}
ScanRunning == spc \in {"start", "walking"}

C31_AbortsOnlyWhenUnreachable ==
    entry = "main" =>
        /\ launches <= 1
        /\ (mpc = "exited" /\ Printed("UNC path still inaccessible. Exiting.")) =>
              (status = 1 /\ ~reachable)

\* ------------------------------------------------------------------ C32
\* C32: every call of prompt_user_to_authenticate returns: its loop makes
\* at most timeout + 1 sleeping passes, the elapsed time never exceeds the
\* timeout, and a call whose Explorer window is never closed returns False
\* once the elapsed time has reached the timeout.
C32_AuthenticationTerminates ==
    /\ <>(apc = "returned")
    /\ [](/\ elapsed <= timeout
          /\ polls <= timeout + 2
          /\ (apc = "returned" /\ proc = "running") =>
                (~success /\ elapsed >= timeout /\ polls = timeout + 1))

C32_Witness ==
    /\ entry = "prompt_user_to_authenticate"
    /\ apc = "returned" /\ proc = "running" /\ ~reachable
    /\ ~success
    /\ timeout = MaxTimeout /\ elapsed = MaxTimeout

\* ------------------------------------------------------------------ C33
FallbackIn(k, i) == Reported(k, "os.remove failed; trying 'del' command for", PathOfFile(i))
\* The verdicts the k-th call has logged for file i.
VerdictsIn(k, i) == {m \in RemovalMessages \ {"os.remove failed; trying 'del' command for"} :
                        Reported(k, m, PathOfFile(i))}

\* C33: a removal first tries the direct deletion; the shell delete is run
\* only when the direct deletion failed for another reason than the stream
\* being absent; its result is reported as already absent when it exits 0
\* with "Could not find" or "File not found" on stderr, as success when it
\* exits 0 otherwise, and as an error when it exits non-zero.
C33_FallbackAndItsVerdict ==
    \A i \in ScanFiles :
        LET fs == desktop.files[i].fs IN
        /\ FallbackIn(1, i) =>
              (ProcessedIn(1, i) /\ fs \in {"del", "gone", "nofile", "stuck", "nocmd"})
        /\ ProcessedIn(1, i) =>
              /\ fs = "plain" =>
                    VerdictsIn(1, i) = {"Successfully removed MotW from (via os.remove)"}
              /\ fs = "lost" => VerdictsIn(1, i) = {"No Mark of the Web found for"}
              /\ fs \in {"plain", "lost"} => ~FallbackIn(1, i)
              /\ fs \in {"gone", "nofile"} =>
                    /\ FallbackIn(1, i)
                    /\ VerdictsIn(1, i) = {"No Mark of the Web found for (confirmed by del command)"}
              /\ fs = "del" =>
                    /\ FallbackIn(1, i)
                    /\ VerdictsIn(1, i) = {"Successfully removed MotW from (via del command)"}
              /\ fs = "stuck" =>
                    /\ FallbackIn(1, i)
                    /\ VerdictsIn(1, i) = {"Failed to remove MotW from"}
                    /\ marker[i]

C33_Witness ==
    /\ Len(reports) = 1 /\ spc = "returned"
    /\ \E i, j, k \in ScanFiles :
          /\ desktop.files[i].fs = "gone" /\ ProcessedIn(1, i)
          /\ desktop.files[j].fs = "nofile" /\ ProcessedIn(1, j)
          /\ desktop.files[k].fs = "stuck" /\ ProcessedIn(1, k)

\* ------------------------------------------------------------------ C34
\* Where the k-th call's log has msg about arg (0: nowhere).
LineOf(k, msg, arg) ==
    IF Reported(k, msg, arg)
    THEN CHOOSE j \in 1..Len(reports[k]) : reports[k][j] = L(msg, arg)
    ELSE 0
SkippedIn(k, i) == Reported(k, "Skipping (no MotW):", NameOfFile(i))

\* C34: a shortcut file the walk has not reached yet has no line; once
\* reached it is tested and found either without a marker (skipped, no
\* removal attempted) or with one; a removal is attempted only after the
\* file was found marked, and it ends in exactly one of two ways: the
\* marker is gone and no error is logged, or an error is logged and the
\* marker is still there.
C34_FileStateMachine ==
    \A i \in ScanFiles : ClaimedMatch(i) =>
        /\ ~VisitedIn(1, i) => (~TestedIn(1, i) /\ VerdictsIn(1, i) = {})
        /\ VisitedIn(1, i) => (SkippedIn(1, i) <=> ~ProcessedIn(1, i))
        /\ SkippedIn(1, i) => VerdictsIn(1, i) = {}
        /\ VerdictsIn(1, i) # {} => ProcessedIn(1, i)
        /\ ProcessedIn(1, i) =>
              /\ Cardinality(VerdictsIn(1, i)) = 1
              /\ \A m \in VerdictsIn(1, i) :
                    LineOf(1, "Processing shortcut with MotW:", NameOfFile(i))
                        < LineOf(1, m, PathOfFile(i))
              /\ FailedIn(1, i) <=> marker[i]

C34_Witness ==
    /\ Len(reports) = 1 /\ spc = "walking" /\ cursor = 4
    /\ \E i, j, k \in ScanFiles :
          /\ ClaimedMatch(k) /\ ~VisitedIn(1, k)
          /\ SkippedIn(1, i) /\ ~marker[i]
          /\ ProcessedIn(1, j) /\ FailedIn(1, j) /\ marker[j]

\* ------------------------------------------------------------------ C35
\* The positions in asked of a declined "Proceed with sync? (y/n)".
DeclinedAt ==
    {k \in 1..Len(asked) :
        asked[k].prompt = "Proceed with sync? (y/n)" /\ ~ClaimedYes(asked[k].answer)}

\* C35: when the user declines the initial confirmation, main exits with
\* status 0: no stage is called (root copy, AppData, post-processing,
\* program files, registry export), no subprocess is started, the shortcut
\* scan does not run and nothing is asked afterwards.
C35_DeclineEndsRun ==
    (entry = "main" /\ DeclinedAt # {}) =>
        /\ mpc = "exited" /\ status = 0
        /\ DeclinedAt = {Len(asked)}
        /\ stages = <<>>
        /\ dpc = "idle" /\ call = NoCall
        /\ \A t \in Slots : pc[t] = "none" /\ launched[t] = 0
        /\ spc = "off" /\ reports = <<>>
        /\ Printed("Operation cancelled by user.")

C35_Witness ==
    /\ entry = "main" /\ ~args.dryrun
    /\ mpc = "exited"
    /\ \E k \in DeclinedAt : asked[k].answer = "no"

\* ------------------------------------------------------------------ C36
\* The local destination main announced at line 138 and handed to the copy
\* stages: the command line's path, or the one typed at the prompt.
CopyDestination ==
    IF TruthyStr(args.destination) THEN args.destination ELSE TypedDest

C37_SkippedOnlyWhenAbsent ==
    \A k \in 1..MaxPasses : \A i \in ScanFiles :
        (ClaimedMatch(i) /\ SkippedIn(k, i)) => ~marker[i]

\* ------------------------------------------------------------------ C38
\* C38: in a run without --dryrun no directory has been created when the
\* user is asked "Proceed with sync? (y/n)", so declining leaves the local
\* filesystem as it was.
C38_DeclineLeavesNoDirectory ==
    (entry = "main" /\ ~args.dryrun /\ (mpc = "confirm" \/ DeclinedAt # {})) =>
        dirs = {}

====
